---------------------------- MODULE Spec2Model ----------------------------
(***************************************************************************)
(* Uthread synchronisation core of parlib (user/parlib/mutex.c):           *)
(* semaphores and mutexes, condition variables and reader-writer locks,    *)
(* with the timeout alarm handler and the default FIFO sync object.        *)
(*                                                                         *)
(* Every primitive is guarded by its own spin_pdr_lock.  A lock variable   *)
(* holds the identity of the context inside the critical section: the      *)
(* uthread itself, the vcore running that uthread's yield callback, or the *)
(* alarm handler of that uthread's timeout blob.  A step that takes a      *)
(* spinlock waits until the lock is free.                                  *)
(***************************************************************************)
EXTENDS Integers, Sequences, FiniteSets, TLC

(* ------------------------------ bounds --------------------------------- *)
NThreads == 2       \* uthreads of the specifications that use timeouts
NMany == 3          \* uthreads of the rwlock
MaxCount == 2       \* largest count a semaphore starts with or is raised to
MaxUps == 2         \* ups made where ups and downs are counted
MaxIter == 2        \* lock; x++; unlock iterations of each uthread
MaxDepth == 2       \* deepest nesting of a recursive mutex

Threads == 1..NThreads
Many == 1..NMany
AllThreads == Threads \cup Many
NULL == 0

VARIABLES
    client,         \* which callers drive the primitives
    pc,             \* per uthread: position in the code of mutex.c
    ust,            \* per uthread: "runnable" (running, or ready for the 2LS to run), "blocked"
    cb,             \* per uthread: position of its sem / rwlock yield callback
    cv_cb,          \* per uthread: position of its __cv_wait_cb
    op,             \* per uthread: operation in progress or just returned
    ret,            \* per uthread: return value of the completed operation
    timed,          \* per uthread: abs_timeout != NULL for the operation
    timed_out,      \* per uthread: blob->timed_out
    blob_sync,      \* per uthread: blob->sync_ptr / lock_ptr: "sem" or "cv"
    alarm,          \* per uthread: state of its alarm_waiter / timeout_handler
    sem_lock,       \* sem->lock
    sem_count,      \* sem->count
    sem_q,          \* sem->sync_obj
    up_uth,         \* per uthread: local uth of uth_semaphore_up
    cb_uth,         \* per uthread: local uth of the uth_mutex_unlock of its __cv_wait_cb
    cv_lock,        \* cv->lock
    cv_q,           \* cv->sync_obj
    cv_uth,         \* per uthread: local uth of uth_cond_var_signal
    restartees,     \* per uthread: local sync object of broadcast / rwlock unlock
    rw_lock,        \* rwl->lock
    nr_readers,     \* rwl->nr_readers
    has_writer,     \* rwl->has_writer
    rw_readers,     \* rwl->readers
    rw_writers,     \* rwl->writers
    held,           \* uthreads that returned from a lock without a matching unlock
    n_up,           \* number of uth_semaphore_up calls made
    n_down,         \* number of successful downs
    init_count,     \* count the semaphore was initialised with
    wake_src,       \* per uthread: who took it off a wait queue since it last yielded
    x,              \* shared integer of the lock; x++; unlock loop
    tmp,            \* per uthread: the value of x it read
    step,           \* per uthread: how far it is in its callers' script
    flag,           \* the predicate guarded by the mutex of the CV
    rw_st,          \* per uthread: "none", "reader" or "writer": the rwlock it was given
    r_holder,       \* r_mtx->lockholder
    r_count,        \* r_mtx->count
    r_pc,           \* per uthread: position in a recursive mutex function around its inner call
    old_count       \* per uthread: local old_count of uth_cond_var_timed_wait_recurse

thrVars == <<pc, ust, cb, cv_cb, op, ret, timed>>
blobVars == <<timed_out, blob_sync, alarm>>
semVars == <<sem_lock, sem_count, sem_q, up_uth, cb_uth>>
cvVars == <<cv_lock, cv_q, cv_uth, restartees>>
rwVars == <<rw_lock, nr_readers, has_writer, rw_readers, rw_writers>>
countVars == <<held, n_up, n_down, init_count>>
csVars == <<x, tmp, step, flag>>

recVars == <<r_holder, r_count, r_pc, old_count>>

vars == <<client, thrVars, blobVars, semVars, cvVars, rwVars, countVars,
          wake_src, csVars, rw_st, recVars>>

(* ----------------------- contexts holding a spinlock ------------------- *)
NoOne == <<"none", 0>>
Uth(t) == <<"uth", t>>
Vcore(t) == <<"vcore", t>>
Alarm(t) == <<"alarm", t>>

(* ---------------- default sync object (struct uth_tailq) --------------- *)
InQueue(q, u) == \E i \in 1..Len(q) : q[i] = u

sync_enqueue_drops(q, u) == q

sync_enqueue_front(q, u) == <<u>> \o q

(* TAILQ_INSERT_TAIL *)
sync_enqueue(q, u) == Append(q, u)

sync_first_last(q) == IF q = <<>> THEN NULL ELSE q[Len(q)]

(* TAILQ_FIRST, NULL when empty *)
sync_first(q) == IF q = <<>> THEN NULL ELSE Head(q)

sync_get_next_keeps(q) == q

(* the queue after uth_default_sync_get_next removed its first element *)
sync_get_next(q) == IF q = <<>> THEN <<>> ELSE Tail(q)

(* a search that also finds the uthread in a waker's local list *)
sync_get_uth_found_anywhere(q, u) ==
    InQueue(q, u) \/ \E t \in AllThreads : InQueue(restartees[t], u)

(* uth_default_sync_get_uth: TRUE iff uth is found in the queue *)
sync_get_uth_found(q, u) == InQueue(q, u)

(* a get_uth that finds the uthread and leaves it in the list *)
sync_get_uth_keeps(q, u) == q

(* uth_default_sync_get_uth: the queue with the first occurrence of uth removed *)
RECURSIVE sync_get_uth(_, _)
sync_get_uth(q, u) ==
    IF q = <<>> THEN <<>>
    ELSE IF Head(q) = u THEN Tail(q)
    ELSE <<Head(q)>> \o sync_get_uth(Tail(q), u)

(* TAILQ_EMPTY *)
sync_is_empty(q) == q = <<>>

(* --------------------------- 2LS interface ----------------------------- *)

(* uthread_runnable(uth): the 2LS may run the uthread again *)
uthread_runnable(st, u) == IF u = NULL THEN st ELSE [st EXCEPT ![u] = "runnable"]

(* the uthread runs whenever the 2LS picks it *)
Running(t) == ust[t] = "runnable"

(* a wait queue gave the uthread up: to a waker's pop or to the timeout handler *)
NoteWake(w, u, src) == IF u = NULL THEN w ELSE [w EXCEPT ![u] = @ \cup {src}]

(* ----------------- what the callers are allowed to do ------------------ *)
SemClient == client \in {"sem", "semcount", "semfifo"}
CountsUnits == client \in {"semcount", "semfifo"}
NoteAcquired(t) == IF SemClient THEN held ELSE held \cup {t}
NoteReleased(t) == IF SemClient THEN held ELSE held \ {t}
NoteDown == IF CountsUnits THEN n_down + 1 ELSE n_down
NoteUp == IF CountsUnits THEN n_up + 1 ELSE n_up

(* Callers.  "sem", "semcount": any uthread downs and ups a semaphore.
   "mutex": each uthread runs lock; x++; unlock, MaxIter times.  "cv": the
   uthreads lock and unlock the mutex, wait on the CV holding it, signal and
   broadcast.  "cvflag": uthread 1 runs lock; while (!flag) wait; unlock, the
   others run lock; flag = TRUE; signal or broadcast; unlock, signalling
   before or after the unlock.  "rec": the uthreads lock a recursive mutex
   up to MaxDepth deep and unlock what they locked, uthread 1 waits on the
   CV with it and the others signal and broadcast; step is the number of
   locks a uthread has not unlocked yet.  A mutex is locked only by a
   uthread that does not hold it and unlocked only by its holder.
   "semfifo", "cvfifo": the uthreads but the last block, on the semaphore
   or on the CV (with its mutex), and the last one wakes them with ups, or
   with signals and broadcasts; of the CV's waiters only uthread 1 waits
   with a timeout.  "cvbcast": the uthreads but the last run lock(mtx);
   wait(cv, mtx); unlock(mtx) once, the last one runs signal(cv);
   broadcast(cv).  "cvearly": as "cvbcast", and uthread 1 may wait with a
   timeout.  "pingpong": uthread 1 runs lock; while (flag == 0)
   wait; flag = 0; signal; unlock, and uthread 2 runs lock; flag = 1;
   signal; while (flag == 1) wait; unlock; step counts a uthread's
   statements after its lock.  "rwdrain": every uthread asks for the rwlock
   once, by any of the four lock calls, and unlocks it if it got it; step
   is 1 once its request has returned. *)
Waiter(t) == t = 1

Ponger(t) == t = 2

Waker(t) == t = NMany

(* the uthreads that take part *)
Pop ==
    IF client \in {"rw", "rwdrain", "semfifo", "cvfifo", "cvbcast", "cvearly"}
    THEN Many ELSE Threads

MayLock(t) ==
    /\ pc[t] = "idle"
    /\ CASE client \in {"sem", "semcount"} -> TRUE
         [] client = "semfifo" -> ~Waker(t)
         [] client = "cvfifo" -> ~Waker(t) /\ t \notin held
         [] client \in {"cvbcast", "cvearly"} -> ~Waker(t) /\ t \notin held /\ step[t] = 0
         [] client = "mutex" -> t \notin held /\ step[t] < MaxIter
         [] client = "cvflag" -> t \notin held /\ step[t] = 0
         [] client = "pingpong" ->
               (Waiter(t) \/ Ponger(t)) /\ t \notin held /\ step[t] = 0
         [] client = "cv" -> t \notin held
         [] client = "rec" -> r_pc[t] = "lock_mtx"
         [] OTHER -> FALSE

MayTryLock(t) ==
    CASE client = "rec" -> pc[t] = "idle" /\ r_pc[t] = "try_mtx"
      [] client \in {"semfifo", "cvfifo", "cvbcast", "cvearly", "pingpong"} -> FALSE
      [] OTHER -> MayLock(t)

(* which of the lock calls the callers use; a recursive mutex function
   passes its own abs_timeout on *)
MayTime(t, tm) ==
    IF client = "rec" THEN tm = timed[t]
    ELSE tm => client \in {"sem", "semcount", "semfifo", "mutex"}

MayUnlock(t) ==
    CASE client = "sem" -> pc[t] = "idle" /\ sem_count < MaxCount
      [] client = "semcount" -> pc[t] = "idle" /\ n_up < MaxUps
      [] client = "semfifo" -> pc[t] = "idle" /\ Waker(t) /\ n_up < MaxUps
      [] client = "cvfifo" -> pc[t] = "idle" /\ t \in held
      [] client \in {"cvbcast", "cvearly"} -> pc[t] = "idle" /\ t \in held /\ step[t] = 1
      [] client = "mutex" -> pc[t] = "cs_unlock"
      [] client = "cvflag" -> /\ pc[t] = "idle" /\ t \in held
                              /\ IF Waiter(t) THEN flag ELSE step[t] \in {1, 2}
      [] client = "pingpong" -> /\ pc[t] = "idle" /\ t \in held /\ step[t] = 2
                                /\ Ponger(t) => ~flag
      [] client = "cv" -> pc[t] = "idle" /\ t \in held
      [] client = "rec" -> pc[t] = "idle" /\ r_pc[t] = "unlock_mtx"
      [] OTHER -> FALSE

(* the caller of uth_cond_var_[timed_]wait holds mtx *)
MayWait(t, tm) ==
    /\ pc[t] = "idle" /\ t \in held
    /\ CASE client = "cv" -> TRUE
         [] client = "cvfifo" -> tm => Waiter(t)
         [] client = "cvbcast" -> ~tm /\ step[t] = 0
         [] client = "cvearly" -> (tm => Waiter(t)) /\ step[t] = 0
         [] client = "cvflag" -> Waiter(t) /\ ~flag /\ ~tm
         [] client = "pingpong" ->
               /\ ~tm
               /\ IF Waiter(t) THEN step[t] = 0 /\ ~flag ELSE step[t] = 2 /\ flag
         [] client = "rec" -> r_pc[t] = "wait_cv" /\ tm = timed[t]
         [] OTHER -> FALSE

(* signallers need not hold the mutex *)
MaySignal(t) ==
    /\ pc[t] = "idle"
    /\ CASE client = "cv" -> TRUE
         [] client = "cvfifo" -> Waker(t)
         [] client \in {"cvbcast", "cvearly"} -> Waker(t) /\ step[t] = 0
         [] client = "cvflag" -> ~Waiter(t) /\ step[t] = 1
         [] client = "pingpong" -> t \in held /\ step[t] = 1
         [] client = "rec" -> r_pc[t] = "none" /\ ~Waiter(t)
         [] OTHER -> FALSE

(* the waker of "cvbcast" broadcasts after its signal; "pingpong" only
   signals *)
MayBroadcast(t) ==
    CASE client \in {"cvbcast", "cvearly"} -> pc[t] = "idle" /\ Waker(t) /\ step[t] = 1
      [] client = "pingpong" -> FALSE
      [] OTHER -> MaySignal(t)

(* abs_timeout of uth_semaphore_timed_down: uth_cond_var_timed_wait retakes
   the mutex with uth_mutex_lock, i.e. with a NULL timeout. *)
SemAbsTimeout(t) == timed[t] /\ op[t] # "cv_wait"

(* ====================== timeout blob and alarm ========================= *)

(* set_timeout_blob + set_timeout_alarm: the blob is reset and the alarm is
   armed; from now on the handler may fire at any time. *)
set_timeout(t, which) ==
    /\ timed_out' = [timed_out EXCEPT ![t] = FALSE]
    /\ blob_sync' = [blob_sync EXCEPT ![t] = which]
    /\ alarm' = [alarm EXCEPT ![t] = "armed"]

(* unset_alarm returns once the handler has completed or will never run. *)
unset_alarm_ready(t) == alarm[t] \in {"armed", "done"}

(* ========================== semaphore ================================== *)

(* uth_semaphore_timed_down(sem, abs_timeout), uth_mutex_[timed_]lock:
   the call and spin_pdr_lock(&sem->lock) *)
SemDownLock(t, tm) ==
    /\ Running(t) /\ MayLock(t) /\ MayTime(t, tm)
    /\ sem_lock = NoOne
    /\ sem_lock' = Uth(t)
    /\ pc' = [pc EXCEPT ![t] = "sem_down_locked"]
    /\ op' = [op EXCEPT ![t] = "down"]
    /\ timed' = [timed EXCEPT ![t] = tm]
    /\ UNCHANGED <<recVars, client, ust, cb, cv_cb, ret, blobVars, sem_count, sem_q, up_uth,
                   cb_uth, cvVars, rwVars, countVars, wake_src, csVars, rw_st>>

(* a test that lets a down through at count 0 *)
sem_available_at_zero(c) == c >= 0

(* if (sem->count > 0): a unit is there to take *)
sem_available(c) == c > 0

(* the value uth_semaphore_timed_down hands back: uth_cond_var_timed_wait
   ignores it and returns its own ret *)
down_ret(t, r) == IF op[t] = "cv_wait" THEN ret[t] ELSE r

(* if (sem->count > 0) { sem->count--; unlock; return TRUE; } *)
SemDownFast(t) ==
    /\ Running(t) /\ pc[t] = "sem_down_locked"
    /\ sem_available(sem_count)
    /\ sem_count' = sem_count - 1
    /\ sem_lock' = NoOne
    /\ pc' = [pc EXCEPT ![t] = "done"]
    /\ ret' = [ret EXCEPT ![t] = down_ret(t, "true")]
    /\ held' = NoteAcquired(t)
    /\ n_down' = NoteDown
    /\ UNCHANGED <<recVars, client, ust, cb, cv_cb, op, timed, blobVars, sem_q, up_uth,
                   cb_uth, cvVars, rwVars, n_up, init_count, wake_src, csVars, rw_st>>

(* count == 0: arm the timeout, if any, with the sem's lock still held *)
SemDownSlow(t) ==
    /\ Running(t) /\ pc[t] = "sem_down_locked"
    /\ ~sem_available(sem_count)
    /\ IF SemAbsTimeout(t) THEN set_timeout(t, "sem") ELSE UNCHANGED blobVars
    /\ pc' = [pc EXCEPT ![t] = "sem_yield"]
    /\ UNCHANGED <<recVars, client, ust, cb, cv_cb, op, ret, timed, semVars, cvVars, rwVars,
                   countVars, wake_src, csVars, rw_st>>

(* uthread_yield(TRUE, __semaphore_cb, sem): the context is saved and the
   callback starts in vcore context *)
SemYield(t) ==
    /\ Running(t) /\ pc[t] = "sem_yield"
    /\ ust' = [ust EXCEPT ![t] = "blocked"]
    /\ cb' = [cb EXCEPT ![t] = "sem_cb_enqueue"]
    /\ pc' = [pc EXCEPT ![t] = "sem_woken"]
    /\ wake_src' = [wake_src EXCEPT ![t] = {}]
    /\ UNCHANGED <<recVars, client, cv_cb, op, ret, timed, blobVars, semVars, cvVars, rwVars,
                   countVars, csVars, rw_st>>

(* __semaphore_cb: uthread_has_blocked; __uth_sync_enqueue *)
SemCbEnqueue(t) ==
    /\ cb[t] = "sem_cb_enqueue"
    /\ sem_q' = sync_enqueue(sem_q, t)
    /\ cb' = [cb EXCEPT ![t] = "sem_cb_unlock"]
    /\ UNCHANGED <<recVars, client, pc, ust, cv_cb, op, ret, timed, blobVars, sem_lock,
                   sem_count, up_uth, cb_uth, cvVars, rwVars, countVars, wake_src,
                   csVars, rw_st>>

(* __semaphore_cb: spin_pdr_unlock(&sem->lock) *)
SemCbUnlock(t) ==
    /\ cb[t] = "sem_cb_unlock"
    /\ sem_lock' = NoOne
    /\ cb' = [cb EXCEPT ![t] = "none"]
    /\ UNCHANGED <<recVars, client, pc, ust, cv_cb, op, ret, timed, blobVars, sem_count,
                   sem_q, up_uth, cb_uth, cvVars, rwVars, countVars, wake_src,
                   csVars, rw_st>>

(* back from uthread_yield: unset_alarm, then timed_out decides the result *)
SemDownReturn(t) ==
    /\ Running(t) /\ pc[t] = "sem_woken"
    /\ IF SemAbsTimeout(t)
       THEN /\ unset_alarm_ready(t)
            /\ alarm' = [alarm EXCEPT ![t] = "off"]
            /\ ret' = [ret EXCEPT ![t] = IF timed_out[t] THEN "false" ELSE "true"]
            /\ held' = IF timed_out[t] THEN held ELSE NoteAcquired(t)
            /\ n_down' = IF timed_out[t] THEN n_down ELSE NoteDown
            /\ timed_out' = [timed_out EXCEPT ![t] = FALSE]
       ELSE /\ UNCHANGED <<alarm, timed_out>>
            /\ ret' = [ret EXCEPT ![t] = down_ret(t, "true")]
            /\ held' = NoteAcquired(t)
            /\ n_down' = NoteDown
    /\ pc' = [pc EXCEPT ![t] = "done"]
    /\ UNCHANGED <<recVars, client, ust, cb, cv_cb, op, timed, blob_sync, semVars, cvVars,
                   rwVars, n_up, init_count, wake_src, csVars, rw_st>>

(* uth_semaphore_trydown, uth_mutex_trylock: the call and spin_pdr_lock *)
SemTryLock(t) ==
    /\ Running(t) /\ MayTryLock(t)
    /\ sem_lock = NoOne
    /\ sem_lock' = Uth(t)
    /\ pc' = [pc EXCEPT ![t] = "sem_try_locked"]
    /\ op' = [op EXCEPT ![t] = "trydown"]
    /\ UNCHANGED <<recVars, client, ust, cb, cv_cb, ret, timed, blobVars, sem_count, sem_q,
                   up_uth, cb_uth, cvVars, rwVars, countVars, wake_src, csVars, rw_st>>

(* a trydown that reports success and leaves the count as it is *)
SemTryDownKeeps(t) ==
    /\ Running(t) /\ pc[t] = "sem_try_locked"
    /\ sem_count' = sem_count
    /\ ret' = [ret EXCEPT ![t] = IF sem_available(sem_count) THEN "true" ELSE "false"]
    /\ held' = IF sem_available(sem_count) THEN NoteAcquired(t) ELSE held
    /\ n_down' = IF sem_available(sem_count) THEN NoteDown ELSE n_down
    /\ sem_lock' = NoOne
    /\ pc' = [pc EXCEPT ![t] = "done"]
    /\ UNCHANGED <<recVars, client, ust, cb, cv_cb, op, timed, blobVars, sem_q, up_uth,
                   cb_uth, cvVars, rwVars, n_up, init_count, wake_src, csVars, rw_st>>

(* uth_semaphore_trydown: the test, the decrement, the unlock *)
SemTryDown(t) ==
    /\ Running(t) /\ pc[t] = "sem_try_locked"
    /\ sem_count' = IF sem_available(sem_count) THEN sem_count - 1 ELSE sem_count
    /\ ret' = [ret EXCEPT ![t] = IF sem_available(sem_count) THEN "true" ELSE "false"]
    /\ held' = IF sem_available(sem_count) THEN NoteAcquired(t) ELSE held
    /\ n_down' = IF sem_available(sem_count) THEN NoteDown ELSE n_down
    /\ sem_lock' = NoOne
    /\ pc' = [pc EXCEPT ![t] = "done"]
    /\ UNCHANGED <<recVars, client, ust, cb, cv_cb, op, timed, blobVars, sem_q, up_uth,
                   cb_uth, cvVars, rwVars, n_up, init_count, wake_src, csVars, rw_st>>

(* uth_semaphore_up, uth_mutex_unlock: the call and spin_pdr_lock *)
SemUpLock(t) ==
    /\ Running(t) /\ MayUnlock(t)
    /\ sem_lock = NoOne
    /\ sem_lock' = Uth(t)
    /\ pc' = [pc EXCEPT ![t] = "sem_up_locked"]
    /\ op' = [op EXCEPT ![t] = "up"]
    /\ held' = NoteReleased(t)
    /\ n_up' = NoteUp
    /\ UNCHANGED <<recVars, client, ust, cb, cv_cb, ret, timed, blobVars, sem_count, sem_q,
                   up_uth, cb_uth, cvVars, rwVars, n_down, init_count, wake_src,
                   csVars, rw_st>>

(* an up that raises the count even when it hands the unit to a waiter *)
up_count_always(q, c) == c + 1

(* an up that never raises the count *)
up_count_never(q, c) == c

(* uth = __uth_sync_get_next(); if (!uth) sem->count++; *)
up_count(q, c) == IF sync_first(q) = NULL THEN c + 1 ELSE c

(* an up that pops the waiter and goes on to wake it with sem->lock still
   held *)
SemUpPopLocked(t) ==
    /\ Running(t) /\ pc[t] = "sem_up_locked"
    /\ up_uth' = [up_uth EXCEPT ![t] = sync_first(sem_q)]
    /\ sem_q' = sync_get_next(sem_q)
    /\ sem_count' = up_count(sem_q, sem_count)
    /\ wake_src' = NoteWake(wake_src, sync_first(sem_q), "pop")
    /\ sem_lock' = IF sync_first(sem_q) = NULL THEN NoOne ELSE sem_lock
    /\ pc' = [pc EXCEPT ![t] = IF sync_first(sem_q) = NULL THEN "done" ELSE "sem_up_wake"]
    /\ UNCHANGED <<recVars, client, ust, cb, cv_cb, op, ret, timed, blobVars, cb_uth, cvVars,
                   rwVars, countVars, csVars, rw_st>>

(* uth_semaphore_up: pop the next waiter or count++, then unlock; with no
   waiter popped there is nobody to wake and up returns *)
SemUpPop(t) ==
    /\ Running(t) /\ pc[t] = "sem_up_locked"
    /\ up_uth' = [up_uth EXCEPT ![t] = sync_first(sem_q)]
    /\ sem_q' = sync_get_next(sem_q)
    /\ sem_count' = up_count(sem_q, sem_count)
    /\ wake_src' = NoteWake(wake_src, sync_first(sem_q), "pop")
    /\ sem_lock' = NoOne
    /\ pc' = [pc EXCEPT ![t] = IF sync_first(sem_q) = NULL THEN "done" ELSE "sem_up_wake"]
    /\ UNCHANGED <<recVars, client, ust, cb, cv_cb, op, ret, timed, blobVars, cb_uth, cvVars,
                   rwVars, countVars, csVars, rw_st>>

(* uth_semaphore_up: uthread_runnable(uth) *)
SemUpWake(t) ==
    /\ Running(t) /\ pc[t] = "sem_up_wake"
    /\ ust' = uthread_runnable(ust, up_uth[t])
    /\ up_uth' = [up_uth EXCEPT ![t] = NULL]
    /\ pc' = [pc EXCEPT ![t] = "done"]
    /\ UNCHANGED <<recVars, client, cb, cv_cb, op, ret, timed, blobVars, sem_lock, sem_count,
                   sem_q, cb_uth, cvVars, rwVars, countVars, wake_src, csVars, rw_st>>

(* ======================= condition variable ============================ *)

(* uth_cond_var_timed_wait: spin_pdr_lock(&cv->lock), then the timeout is
   armed, if any, with the cv's lock held *)
CvWaitLock(t, tm) ==
    /\ Running(t) /\ MayWait(t, tm)
    /\ cv_lock = NoOne
    /\ cv_lock' = Uth(t)
    /\ IF tm THEN set_timeout(t, "cv") ELSE UNCHANGED blobVars
    /\ pc' = [pc EXCEPT ![t] = "cv_yield"]
    /\ op' = [op EXCEPT ![t] = "cv_wait"]
    /\ timed' = [timed EXCEPT ![t] = tm]
    /\ UNCHANGED <<recVars, client, ust, cb, cv_cb, ret, semVars, cv_q, cv_uth, restartees,
                   rwVars, countVars, wake_src, csVars, rw_st>>

(* a wait that goes on running, as if an earlier wakeup had been kept for
   it *)
CvYieldSkips(t) ==
    /\ Running(t) /\ pc[t] = "cv_yield"
    /\ cv_cb' = [cv_cb EXCEPT ![t] = "cv_cb_enqueue"]
    /\ pc' = [pc EXCEPT ![t] = "cv_woken"]
    /\ wake_src' = [wake_src EXCEPT ![t] = {}]
    /\ UNCHANGED <<recVars, client, ust, cb, op, ret, timed, blobVars, semVars, cvVars, rwVars,
                   countVars, csVars, rw_st>>

(* uthread_yield(TRUE, __cv_wait_cb, &link) *)
CvYield(t) ==
    /\ Running(t) /\ pc[t] = "cv_yield"
    /\ ust' = [ust EXCEPT ![t] = "blocked"]
    /\ cv_cb' = [cv_cb EXCEPT ![t] = "cv_cb_enqueue"]
    /\ pc' = [pc EXCEPT ![t] = "cv_woken"]
    /\ wake_src' = [wake_src EXCEPT ![t] = {}]
    /\ UNCHANGED <<recVars, client, cb, op, ret, timed, blobVars, semVars, cvVars, rwVars,
                   countVars, csVars, rw_st>>

(* a wait callback that leaves the waiter off the CV's queue *)
CvCbEnqueueLost(t) ==
    /\ cv_cb[t] = "cv_cb_enqueue"
    /\ cv_cb' = [cv_cb EXCEPT ![t] = "cv_cb_unlock"]
    /\ UNCHANGED <<recVars, client, pc, ust, cb, op, ret, timed, blobVars, semVars, cv_lock,
                   cv_q, cv_uth, restartees, rwVars, countVars, wake_src, csVars, rw_st>>

(* __cv_wait_cb: uthread_has_blocked; __uth_sync_enqueue(uth, &cv->sync_obj) *)
CvCbEnqueue(t) ==
    /\ cv_cb[t] = "cv_cb_enqueue"
    /\ cv_q' = sync_enqueue(cv_q, t)
    /\ cv_cb' = [cv_cb EXCEPT ![t] = "cv_cb_unlock"]
    /\ UNCHANGED <<recVars, client, pc, ust, cb, op, ret, timed, blobVars, semVars, cv_lock,
                   cv_uth, restartees, rwVars, countVars, wake_src, csVars, rw_st>>

(* a wait callback that goes on to uth_mutex_unlock with cv->lock still
   held *)
CvCbUnlockLate(t) ==
    /\ cv_cb[t] = "cv_cb_unlock"
    /\ cv_cb' = [cv_cb EXCEPT ![t] = "cv_cb_mtx"]
    /\ UNCHANGED <<recVars, client, pc, ust, cb, op, ret, timed, blobVars, semVars, cv_lock,
                   cv_q, cv_uth, restartees, rwVars, countVars, wake_src, csVars, rw_st>>

(* __cv_wait_cb: spin_pdr_unlock(&cv->lock) *)
CvCbUnlock(t) ==
    /\ cv_cb[t] = "cv_cb_unlock"
    /\ cv_lock' = NoOne
    /\ cv_cb' = [cv_cb EXCEPT ![t] = "cv_cb_mtx"]
    /\ UNCHANGED <<recVars, client, pc, ust, cb, op, ret, timed, blobVars, semVars, cv_q,
                   cv_uth, restartees, rwVars, countVars, wake_src, csVars, rw_st>>

(* __cv_wait_cb: uth_mutex_unlock(mtx), i.e. uth_semaphore_up: spin_pdr_lock *)
CvCbUpLock(t) ==
    /\ cv_cb[t] = "cv_cb_mtx"
    /\ sem_lock = NoOne
    /\ sem_lock' = Vcore(t)
    /\ held' = NoteReleased(t)
    /\ cv_cb' = [cv_cb EXCEPT ![t] = "cv_cb_up_locked"]
    /\ UNCHANGED <<recVars, client, pc, ust, cb, op, ret, timed, blobVars, sem_count, sem_q,
                   up_uth, cb_uth, cvVars, rwVars, n_up, n_down, init_count,
                   wake_src, csVars, rw_st>>

(* a callback's unlock that raises the count and leaves the mutex's queue
   as it is *)
CvCbUpPopSkips(t) ==
    /\ cv_cb[t] = "cv_cb_up_locked"
    /\ sem_count' = sem_count + 1
    /\ sem_lock' = NoOne
    /\ cv_cb' = [cv_cb EXCEPT ![t] = "none"]
    /\ UNCHANGED <<recVars, client, pc, ust, cb, op, ret, timed, blobVars, sem_q, up_uth,
                   cb_uth, cvVars, rwVars, countVars, wake_src, csVars, rw_st>>

(* ... the pop or count++, and the unlock of the mutex's spinlock *)
CvCbUpPop(t) ==
    /\ cv_cb[t] = "cv_cb_up_locked"
    /\ cb_uth' = [cb_uth EXCEPT ![t] = sync_first(sem_q)]
    /\ sem_q' = sync_get_next(sem_q)
    /\ sem_count' = up_count(sem_q, sem_count)
    /\ wake_src' = NoteWake(wake_src, sync_first(sem_q), "pop")
    /\ sem_lock' = NoOne
    /\ cv_cb' = [cv_cb EXCEPT ![t] = IF sync_first(sem_q) = NULL
                                     THEN "none" ELSE "cv_cb_up_wake"]
    /\ UNCHANGED <<recVars, client, pc, ust, cb, op, ret, timed, blobVars, up_uth, cvVars,
                   rwVars, countVars, csVars, rw_st>>

(* ... if (uth) uthread_runnable(uth); the callback is over *)
CvCbUpWake(t) ==
    /\ cv_cb[t] = "cv_cb_up_wake"
    /\ ust' = uthread_runnable(ust, cb_uth[t])
    /\ cb_uth' = [cb_uth EXCEPT ![t] = NULL]
    /\ cv_cb' = [cv_cb EXCEPT ![t] = "none"]
    /\ UNCHANGED <<recVars, client, pc, cb, op, ret, timed, blobVars, sem_lock, sem_count,
                   sem_q, up_uth, cvVars, rwVars, countVars, wake_src, csVars, rw_st>>

(* a timed wait that returns at once when it timed out, without the mutex *)
cv_after_unset_early(r) == IF r = "false" THEN "done" ELSE "cv_relock"

(* after the alarm is unset uth_cond_var_timed_wait always goes on to
   uth_mutex_lock(mtx), whatever ret is *)
cv_after_unset(r) == "cv_relock"

(* back from uthread_yield: unset_alarm; ret = blob->timed_out ? FALSE : TRUE *)
CvWaitUnset(t) ==
    /\ Running(t) /\ pc[t] = "cv_woken"
    /\ IF timed[t]
       THEN /\ unset_alarm_ready(t)
            /\ alarm' = [alarm EXCEPT ![t] = "off"]
            /\ ret' = [ret EXCEPT ![t] = IF timed_out[t] THEN "false" ELSE "true"]
            /\ timed_out' = [timed_out EXCEPT ![t] = FALSE]
       ELSE /\ UNCHANGED <<alarm, timed_out>>
            /\ ret' = [ret EXCEPT ![t] = "true"]
    /\ pc' = [pc EXCEPT ![t] = cv_after_unset(ret'[t])]
    /\ UNCHANGED <<recVars, client, ust, cb, cv_cb, op, timed, blob_sync, semVars, cvVars,
                   rwVars, countVars, wake_src, csVars, rw_st>>

(* uth_cond_var_timed_wait: uth_mutex_lock(mtx): spin_pdr_lock(&sem->lock) *)
CvRelock(t) ==
    /\ Running(t) /\ pc[t] = "cv_relock"
    /\ sem_lock = NoOne
    /\ sem_lock' = Uth(t)
    /\ pc' = [pc EXCEPT ![t] = "sem_down_locked"]
    /\ UNCHANGED <<recVars, client, ust, cb, cv_cb, op, ret, timed, blobVars, sem_count,
                   sem_q, up_uth, cb_uth, cvVars, rwVars, countVars, wake_src,
                   csVars, rw_st>>

(* uth_cond_var_signal: the call and spin_pdr_lock(&cv->lock) *)
CvSignalLock(t) ==
    /\ Running(t) /\ MaySignal(t)
    /\ cv_lock = NoOne
    /\ cv_lock' = Uth(t)
    /\ pc' = [pc EXCEPT ![t] = "cv_signal_locked"]
    /\ op' = [op EXCEPT ![t] = "signal"]
    /\ UNCHANGED <<recVars, client, ust, cb, cv_cb, ret, timed, blobVars, semVars, cv_q,
                   cv_uth, restartees, rwVars, countVars, wake_src, csVars, rw_st>>

(* uth = __uth_sync_get_next(&cv->sync_obj); spin_pdr_unlock(&cv->lock) *)
CvSignalPop(t) ==
    /\ Running(t) /\ pc[t] = "cv_signal_locked"
    /\ cv_uth' = [cv_uth EXCEPT ![t] = sync_first(cv_q)]
    /\ cv_q' = sync_get_next(cv_q)
    /\ wake_src' = NoteWake(wake_src, sync_first(cv_q), "pop")
    /\ cv_lock' = NoOne
    /\ pc' = [pc EXCEPT ![t] = IF sync_first(cv_q) = NULL THEN "done" ELSE "cv_signal_wake"]
    /\ UNCHANGED <<recVars, client, ust, cb, cv_cb, op, ret, timed, blobVars, semVars,
                   restartees, rwVars, countVars, csVars, rw_st>>

(* a signal that takes the waiter off the queue and forgets to make it
   runnable *)
CvSignalWakeForgets(t) ==
    /\ Running(t) /\ pc[t] = "cv_signal_wake"
    /\ cv_uth' = [cv_uth EXCEPT ![t] = NULL]
    /\ pc' = [pc EXCEPT ![t] = "done"]
    /\ UNCHANGED <<recVars, client, ust, cb, cv_cb, op, ret, timed, blobVars, semVars, cv_lock,
                   cv_q, restartees, rwVars, countVars, wake_src, csVars, rw_st>>

(* if (uth) uthread_runnable(uth) *)
CvSignalWake(t) ==
    /\ Running(t) /\ pc[t] = "cv_signal_wake"
    /\ ust' = uthread_runnable(ust, cv_uth[t])
    /\ cv_uth' = [cv_uth EXCEPT ![t] = NULL]
    /\ pc' = [pc EXCEPT ![t] = "done"]
    /\ UNCHANGED <<recVars, client, cb, cv_cb, op, ret, timed, blobVars, semVars, cv_lock,
                   cv_q, restartees, rwVars, countVars, wake_src, csVars, rw_st>>

(* uth_cond_var_broadcast: the call and spin_pdr_lock(&cv->lock) *)
CvBroadcastLock(t) ==
    /\ Running(t) /\ MayBroadcast(t)
    /\ cv_lock = NoOne
    /\ cv_lock' = Uth(t)
    /\ pc' = [pc EXCEPT ![t] = "cv_bcast_locked"]
    /\ op' = [op EXCEPT ![t] = "broadcast"]
    /\ UNCHANGED <<recVars, client, ust, cb, cv_cb, ret, timed, blobVars, semVars, cv_q,
                   cv_uth, restartees, rwVars, countVars, wake_src, csVars, rw_st>>

(* every member of the swapped-out queue has been taken off the CV *)
RECURSIVE NoteWakeAll(_, _, _)
NoteWakeAll(w, q, src) ==
    IF q = <<>> THEN w ELSE NoteWakeAll(NoteWake(w, Head(q), src), Tail(q), src)

(* if empty: unlock and return; else __uth_sync_swap(&restartees,
   &cv->sync_obj) with restartees freshly initialised, and unlock *)
CvBroadcastSwap(t) ==
    /\ Running(t) /\ pc[t] = "cv_bcast_locked"
    /\ restartees' = [restartees EXCEPT ![t] = cv_q]
    /\ cv_q' = <<>>
    /\ wake_src' = NoteWakeAll(wake_src, cv_q, "pop")
    /\ cv_lock' = NoOne
    /\ pc' = [pc EXCEPT ![t] = IF sync_is_empty(cv_q) THEN "done" ELSE "cv_bcast_wake"]
    /\ UNCHANGED <<recVars, client, ust, cb, cv_cb, op, ret, timed, blobVars, semVars, cv_uth,
                   rwVars, countVars, csVars, rw_st>>

(* __uth_sync_wake_all: while ((uth_i = __uth_sync_get_next(wakees)))
   uthread_runnable(uth_i); one uthread per step *)
CvBroadcastWake(t) ==
    /\ Running(t) /\ pc[t] = "cv_bcast_wake"
    /\ ust' = uthread_runnable(ust, sync_first(restartees[t]))
    /\ restartees' = [restartees EXCEPT ![t] = sync_get_next(@)]
    /\ pc' = [pc EXCEPT ![t] = IF sync_get_next(restartees[t]) = <<>>
                               THEN "done" ELSE "cv_bcast_wake"]
    /\ UNCHANGED <<recVars, client, cb, cv_cb, op, ret, timed, blobVars, semVars, cv_lock,
                   cv_q, cv_uth, rwVars, countVars, wake_src, csVars, rw_st>>

(* ========================= recursive mutex ============================= *)

(* a uthread locks at most MaxDepth deep and unlocks only what it locked *)
MayRLock(t) ==
    client = "rec" /\ pc[t] = "idle" /\ r_pc[t] = "none" /\ step[t] < MaxDepth

MayRUnlock(t) ==
    client = "rec" /\ pc[t] = "idle" /\ r_pc[t] = "none" /\ step[t] > 0

(* if (r_mtx->lockholder == current_uthread): only the holder writes
   lockholder, and never to another uthread's identity, so the test of a
   uthread that is not the holder fails whatever it reads *)
r_is_holder_any(t) == r_holder # NULL

r_is_holder(t) == r_holder = t

(* uth_recurse_mutex_timed_lock, uth_recurse_mutex_lock: the holder
   increments count and returns TRUE; any other uthread goes on to
   uth_mutex_timed_lock(&r_mtx->mtx, abs_timeout) *)
RLock(t, tm) ==
    /\ Running(t) /\ MayRLock(t)
    /\ timed' = [timed EXCEPT ![t] = tm]
    /\ IF r_is_holder(t)
       THEN /\ r_count' = r_count + 1
            /\ pc' = [pc EXCEPT ![t] = "done"]
            /\ op' = [op EXCEPT ![t] = "r_lock"]
            /\ ret' = [ret EXCEPT ![t] = "true"]
            /\ UNCHANGED r_pc
       ELSE /\ r_pc' = [r_pc EXCEPT ![t] = "lock_mtx"]
            /\ UNCHANGED <<r_count, pc, op, ret>>
    /\ UNCHANGED <<client, ust, cb, cv_cb, blobVars, semVars, cvVars, rwVars,
                   countVars, wake_src, csVars, rw_st, r_holder, old_count>>

r_after_lock_always(t, got) == [holder |-> t, count |-> 1]

r_after_lock_keeps(t, got) == [holder |-> r_holder, count |-> r_count]

(* the owner and count after the embedded mutex's lock or trylock returned
   got: r_mtx->lockholder = current_uthread; r_mtx->count = 1 when it got
   the mutex, untouched when it did not *)
r_after_lock(t, got) ==
    IF got = "true" THEN [holder |-> t, count |-> 1]
    ELSE [holder |-> r_holder, count |-> r_count]

(* uth_recurse_mutex_timed_lock after uth_mutex_timed_lock returned *)
RLockSet(t) ==
    /\ Running(t) /\ pc[t] = "done" /\ r_pc[t] = "lock_mtx"
    /\ r_holder' = r_after_lock(t, ret[t]).holder
    /\ r_count' = r_after_lock(t, ret[t]).count
    /\ r_pc' = [r_pc EXCEPT ![t] = "none"]
    /\ op' = [op EXCEPT ![t] = "r_lock"]
    /\ UNCHANGED <<client, pc, ust, cb, cv_cb, ret, timed, blobVars, semVars, cvVars,
                   rwVars, countVars, wake_src, csVars, rw_st, old_count>>

(* uth_recurse_mutex_trylock: the same test, then uth_mutex_trylock *)
RTryLock(t) ==
    /\ Running(t) /\ MayRLock(t)
    /\ IF r_is_holder(t)
       THEN /\ r_count' = r_count + 1
            /\ pc' = [pc EXCEPT ![t] = "done"]
            /\ op' = [op EXCEPT ![t] = "r_trylock"]
            /\ ret' = [ret EXCEPT ![t] = "true"]
            /\ UNCHANGED r_pc
       ELSE /\ r_pc' = [r_pc EXCEPT ![t] = "try_mtx"]
            /\ UNCHANGED <<r_count, pc, op, ret>>
    /\ UNCHANGED <<client, ust, cb, cv_cb, timed, blobVars, semVars, cvVars, rwVars,
                   countVars, wake_src, csVars, rw_st, r_holder, old_count>>

(* uth_recurse_mutex_trylock after uth_mutex_trylock returned *)
RTrySet(t) ==
    /\ Running(t) /\ pc[t] = "done" /\ r_pc[t] = "try_mtx"
    /\ r_holder' = r_after_lock(t, ret[t]).holder
    /\ r_count' = r_after_lock(t, ret[t]).count
    /\ r_pc' = [r_pc EXCEPT ![t] = "none"]
    /\ op' = [op EXCEPT ![t] = "r_trylock"]
    /\ UNCHANGED <<client, pc, ust, cb, cv_cb, ret, timed, blobVars, semVars, cvVars,
                   rwVars, countVars, wake_src, csVars, rw_st, old_count>>

r_unlock_last_late(c) == c = 0

(* r_mtx->count--; if (!r_mtx->count) the mutex is to be given up *)
r_unlock_last(c) == c - 1 = 0

(* uth_recurse_mutex_unlock: count--; at 0 the lockholder is cleared and
   uth_mutex_unlock(&r_mtx->mtx) follows *)
RUnlock(t) ==
    /\ Running(t) /\ MayRUnlock(t)
    /\ r_count' = r_count - 1
    /\ IF r_unlock_last(r_count)
       THEN /\ r_holder' = NULL
            /\ r_pc' = [r_pc EXCEPT ![t] = "unlock_mtx"]
            /\ UNCHANGED <<pc, op>>
       ELSE /\ pc' = [pc EXCEPT ![t] = "done"]
            /\ op' = [op EXCEPT ![t] = "r_unlock"]
            /\ UNCHANGED <<r_holder, r_pc>>
    /\ UNCHANGED <<client, ust, cb, cv_cb, ret, timed, blobVars, semVars, cvVars,
                   rwVars, countVars, wake_src, csVars, rw_st, old_count>>

(* uth_recurse_mutex_unlock returns after uth_mutex_unlock *)
RUnlockReturn(t) ==
    /\ Running(t) /\ pc[t] = "done" /\ r_pc[t] = "unlock_mtx"
    /\ r_pc' = [r_pc EXCEPT ![t] = "none"]
    /\ op' = [op EXCEPT ![t] = "r_unlock"]
    /\ UNCHANGED <<client, pc, ust, cb, cv_cb, ret, timed, blobVars, semVars, cvVars,
                   rwVars, countVars, wake_src, csVars, rw_st, r_holder, r_count,
                   old_count>>

(* uth_cond_var_timed_wait_recurse, uth_cond_var_wait_recurse: old_count =
   r_mtx->count; lockholder = NULL; count = 0; then uth_cond_var_timed_wait
   with the embedded mutex *)
RWait(t, tm) ==
    /\ Running(t) /\ MayRUnlock(t) /\ Waiter(t)
    /\ old_count' = [old_count EXCEPT ![t] = r_count]
    /\ r_holder' = NULL
    /\ r_count' = 0
    /\ r_pc' = [r_pc EXCEPT ![t] = "wait_cv"]
    /\ timed' = [timed EXCEPT ![t] = tm]
    /\ UNCHANGED <<client, pc, ust, cb, cv_cb, op, ret, blobVars, semVars, cvVars,
                   rwVars, countVars, wake_src, csVars, rw_st>>

r_restore_count_one(old) == 1

(* r_mtx->count = old_count *)
r_restore_count(old) == old

(* back from uth_cond_var_timed_wait with the embedded mutex:
   lockholder = current_uthread; count = old_count; return ret *)
RWaitRestore(t) ==
    /\ Running(t) /\ pc[t] = "done" /\ r_pc[t] = "wait_cv"
    /\ r_holder' = t
    /\ r_count' = r_restore_count(old_count[t])
    /\ old_count' = [old_count EXCEPT ![t] = 0]
    /\ r_pc' = [r_pc EXCEPT ![t] = "none"]
    /\ op' = [op EXCEPT ![t] = "r_wait"]
    /\ UNCHANGED <<client, pc, ust, cb, cv_cb, ret, timed, blobVars, semVars, cvVars,
                   rwVars, countVars, wake_src, csVars, rw_st>>

(* ======================== reader-writer lock =========================== *)

(* a uthread asks for the rwlock when it has none, and unlocks the one it has *)
MayRwLock(t) ==
    /\ client \in {"rw", "rwdrain"} /\ pc[t] = "idle" /\ rw_st[t] = "none"
    /\ client = "rwdrain" => step[t] = 0

MayRwUnlock(t) ==
    client \in {"rw", "rwdrain"} /\ pc[t] = "idle" /\ rw_st[t] # "none"

(* uth_rwlock_rdlock: the call and spin_pdr_lock(&rwl->lock) *)
RwRdLock(t) ==
    /\ Running(t) /\ MayRwLock(t)
    /\ rw_lock = NoOne
    /\ rw_lock' = Uth(t)
    /\ pc' = [pc EXCEPT ![t] = "rw_rd_locked"]
    /\ op' = [op EXCEPT ![t] = "rdlock"]
    /\ UNCHANGED <<recVars, client, ust, cb, cv_cb, ret, timed, blobVars, semVars, cvVars,
                   nr_readers, has_writer, rw_readers, rw_writers, countVars,
                   wake_src, csVars, rw_st>>

(* an admission test that also keeps readers out while a writer waits *)
rd_admitted_writers_first == ~has_writer /\ sync_is_empty(rw_writers)

(* uth_rwlock_rdlock, uth_rwlock_try_rdlock: if (!rwl->has_writer) *)
rd_admitted == ~has_writer

(* if (!rwl->has_writer) { rwl->nr_readers++; unlock; return; } *)
RwRdFast(t) ==
    /\ Running(t) /\ pc[t] = "rw_rd_locked"
    /\ rd_admitted
    /\ nr_readers' = nr_readers + 1
    /\ rw_lock' = NoOne
    /\ rw_st' = [rw_st EXCEPT ![t] = "reader"]
    /\ pc' = [pc EXCEPT ![t] = "done"]
    /\ UNCHANGED <<recVars, client, ust, cb, cv_cb, op, ret, timed, blobVars, semVars, cvVars,
                   has_writer, rw_readers, rw_writers, countVars, wake_src, csVars>>

(* has_writer: uthread_yield(TRUE, __rwlock_rd_cb, rwl) *)
RwRdYield(t) ==
    /\ Running(t) /\ pc[t] = "rw_rd_locked"
    /\ ~rd_admitted
    /\ ust' = [ust EXCEPT ![t] = "blocked"]
    /\ cb' = [cb EXCEPT ![t] = "rw_rd_cb_enqueue"]
    /\ pc' = [pc EXCEPT ![t] = "rw_rd_woken"]
    /\ wake_src' = [wake_src EXCEPT ![t] = {}]
    /\ UNCHANGED <<recVars, client, cv_cb, op, ret, timed, blobVars, semVars, cvVars, rwVars,
                   countVars, csVars, rw_st>>

(* a reader's callback that leaves the reader off the queue *)
RwRdCbEnqueueLost(t) ==
    /\ cb[t] = "rw_rd_cb_enqueue"
    /\ cb' = [cb EXCEPT ![t] = "rw_cb_unlock"]
    /\ UNCHANGED <<recVars, client, pc, ust, cv_cb, op, ret, timed, blobVars, semVars, cvVars,
                   rw_lock, nr_readers, has_writer, rw_readers, rw_writers, countVars,
                   wake_src, csVars, rw_st>>

(* __rwlock_rd_cb: uthread_has_blocked; __uth_sync_enqueue(uth, &rwl->readers) *)
RwRdCbEnqueue(t) ==
    /\ cb[t] = "rw_rd_cb_enqueue"
    /\ rw_readers' = sync_enqueue(rw_readers, t)
    /\ cb' = [cb EXCEPT ![t] = "rw_cb_unlock"]
    /\ UNCHANGED <<recVars, client, pc, ust, cv_cb, op, ret, timed, blobVars, semVars, cvVars,
                   rw_lock, nr_readers, has_writer, rw_writers, countVars, wake_src,
                   csVars, rw_st>>

(* __rwlock_rd_cb, __rwlock_wr_cb: spin_pdr_unlock(&rwl->lock) *)
RwCbUnlock(t) ==
    /\ cb[t] = "rw_cb_unlock"
    /\ rw_lock' = NoOne
    /\ cb' = [cb EXCEPT ![t] = "none"]
    /\ UNCHANGED <<recVars, client, pc, ust, cv_cb, op, ret, timed, blobVars, semVars, cvVars,
                   nr_readers, has_writer, rw_readers, rw_writers, countVars,
                   wake_src, csVars, rw_st>>

(* back from uthread_yield, uth_rwlock_rdlock returns: the unlocker gave
   the uthread the read lock *)
RwRdReturn(t) ==
    /\ Running(t) /\ pc[t] = "rw_rd_woken"
    /\ rw_st' = [rw_st EXCEPT ![t] = "reader"]
    /\ pc' = [pc EXCEPT ![t] = "done"]
    /\ UNCHANGED <<recVars, client, ust, cb, cv_cb, op, ret, timed, blobVars, semVars, cvVars,
                   rwVars, countVars, wake_src, csVars>>

(* uth_rwlock_try_rdlock: the call and spin_pdr_lock *)
RwTryRdLock(t) ==
    /\ Running(t) /\ MayRwLock(t)
    /\ rw_lock = NoOne
    /\ rw_lock' = Uth(t)
    /\ pc' = [pc EXCEPT ![t] = "rw_tryrd_locked"]
    /\ op' = [op EXCEPT ![t] = "try_rdlock"]
    /\ UNCHANGED <<recVars, client, ust, cb, cv_cb, ret, timed, blobVars, semVars, cvVars,
                   nr_readers, has_writer, rw_readers, rw_writers, countVars,
                   wake_src, csVars, rw_st>>

(* if (!rwl->has_writer) { rwl->nr_readers++; ret = TRUE; } unlock; return ret *)
RwTryRd(t) ==
    /\ Running(t) /\ pc[t] = "rw_tryrd_locked"
    /\ nr_readers' = IF rd_admitted THEN nr_readers + 1 ELSE nr_readers
    /\ ret' = [ret EXCEPT ![t] = IF rd_admitted THEN "true" ELSE "false"]
    /\ rw_st' = [rw_st EXCEPT ![t] = IF rd_admitted THEN "reader" ELSE "none"]
    /\ rw_lock' = NoOne
    /\ pc' = [pc EXCEPT ![t] = "done"]
    /\ UNCHANGED <<recVars, client, ust, cb, cv_cb, op, timed, blobVars, semVars, cvVars,
                   has_writer, rw_readers, rw_writers, countVars, wake_src, csVars>>

(* uth_rwlock_wrlock: the call and spin_pdr_lock(&rwl->lock) *)
RwWrLock(t) ==
    /\ Running(t) /\ MayRwLock(t)
    /\ rw_lock = NoOne
    /\ rw_lock' = Uth(t)
    /\ pc' = [pc EXCEPT ![t] = "rw_wr_locked"]
    /\ op' = [op EXCEPT ![t] = "wrlock"]
    /\ UNCHANGED <<recVars, client, ust, cb, cv_cb, ret, timed, blobVars, semVars, cvVars,
                   nr_readers, has_writer, rw_readers, rw_writers, countVars,
                   wake_src, csVars, rw_st>>

(* a writer's test that does not look at the readers inside *)
wr_free_ignores_readers == ~has_writer

(* the test of uth_rwlock_wrlock and uth_rwlock_try_wrlock *)
wr_free == ~has_writer /\ nr_readers = 0

(* if (!has_writer && !nr_readers) { has_writer = TRUE; unlock; return; } *)
RwWrFast(t) ==
    /\ Running(t) /\ pc[t] = "rw_wr_locked"
    /\ wr_free
    /\ has_writer' = TRUE
    /\ rw_lock' = NoOne
    /\ rw_st' = [rw_st EXCEPT ![t] = "writer"]
    /\ pc' = [pc EXCEPT ![t] = "done"]
    /\ UNCHANGED <<recVars, client, ust, cb, cv_cb, op, ret, timed, blobVars, semVars, cvVars,
                   nr_readers, rw_readers, rw_writers, countVars, wake_src, csVars>>

(* a wrlock that gives up rwl->lock before it yields, and not in the
   callback after the enqueue *)
RwWrYieldUnlocks(t) ==
    /\ Running(t) /\ pc[t] = "rw_wr_locked"
    /\ ~wr_free
    /\ rw_lock' = NoOne
    /\ ust' = [ust EXCEPT ![t] = "blocked"]
    /\ cb' = [cb EXCEPT ![t] = "rw_wr_cb_enqueue"]
    /\ pc' = [pc EXCEPT ![t] = "rw_wr_woken"]
    /\ wake_src' = [wake_src EXCEPT ![t] = {}]
    /\ UNCHANGED <<recVars, client, cv_cb, op, ret, timed, blobVars, semVars, cvVars,
                   nr_readers, has_writer, rw_readers, rw_writers, countVars, csVars,
                   rw_st>>

(* otherwise uthread_yield(TRUE, __rwlock_wr_cb, rwl) *)
RwWrYield(t) ==
    /\ Running(t) /\ pc[t] = "rw_wr_locked"
    /\ ~wr_free
    /\ ust' = [ust EXCEPT ![t] = "blocked"]
    /\ cb' = [cb EXCEPT ![t] = "rw_wr_cb_enqueue"]
    /\ pc' = [pc EXCEPT ![t] = "rw_wr_woken"]
    /\ wake_src' = [wake_src EXCEPT ![t] = {}]
    /\ UNCHANGED <<recVars, client, cv_cb, op, ret, timed, blobVars, semVars, cvVars, rwVars,
                   countVars, csVars, rw_st>>

(* __rwlock_wr_cb: uthread_has_blocked; __uth_sync_enqueue(uth, &rwl->writers) *)
RwWrCbEnqueue(t) ==
    /\ cb[t] = "rw_wr_cb_enqueue"
    /\ rw_writers' = sync_enqueue(rw_writers, t)
    /\ cb' = [cb EXCEPT ![t] = "rw_cb_unlock"]
    /\ UNCHANGED <<recVars, client, pc, ust, cv_cb, op, ret, timed, blobVars, semVars, cvVars,
                   rw_lock, nr_readers, has_writer, rw_readers, countVars, wake_src,
                   csVars, rw_st>>

(* back from uthread_yield, uth_rwlock_wrlock returns *)
RwWrReturn(t) ==
    /\ Running(t) /\ pc[t] = "rw_wr_woken"
    /\ rw_st' = [rw_st EXCEPT ![t] = "writer"]
    /\ pc' = [pc EXCEPT ![t] = "done"]
    /\ UNCHANGED <<recVars, client, ust, cb, cv_cb, op, ret, timed, blobVars, semVars, cvVars,
                   rwVars, countVars, wake_src, csVars>>

(* uth_rwlock_try_wrlock: the call and spin_pdr_lock *)
RwTryWrLock(t) ==
    /\ Running(t) /\ MayRwLock(t)
    /\ rw_lock = NoOne
    /\ rw_lock' = Uth(t)
    /\ pc' = [pc EXCEPT ![t] = "rw_trywr_locked"]
    /\ op' = [op EXCEPT ![t] = "try_wrlock"]
    /\ UNCHANGED <<recVars, client, ust, cb, cv_cb, ret, timed, blobVars, semVars, cvVars,
                   nr_readers, has_writer, rw_readers, rw_writers, countVars,
                   wake_src, csVars, rw_st>>

(* a try_wrlock that sets has_writer even when it fails *)
RwTryWrSets(t) ==
    /\ Running(t) /\ pc[t] = "rw_trywr_locked"
    /\ has_writer' = TRUE
    /\ ret' = [ret EXCEPT ![t] = IF wr_free THEN "true" ELSE "false"]
    /\ rw_st' = [rw_st EXCEPT ![t] = IF wr_free THEN "writer" ELSE "none"]
    /\ rw_lock' = NoOne
    /\ pc' = [pc EXCEPT ![t] = "done"]
    /\ UNCHANGED <<recVars, client, ust, cb, cv_cb, op, timed, blobVars, semVars, cvVars,
                   nr_readers, rw_readers, rw_writers, countVars, wake_src, csVars>>

(* if (!has_writer && !nr_readers) { has_writer = TRUE; ret = TRUE; } unlock *)
RwTryWr(t) ==
    /\ Running(t) /\ pc[t] = "rw_trywr_locked"
    /\ has_writer' = IF wr_free THEN TRUE ELSE has_writer
    /\ ret' = [ret EXCEPT ![t] = IF wr_free THEN "true" ELSE "false"]
    /\ rw_st' = [rw_st EXCEPT ![t] = IF wr_free THEN "writer" ELSE "none"]
    /\ rw_lock' = NoOne
    /\ pc' = [pc EXCEPT ![t] = "done"]
    /\ UNCHANGED <<recVars, client, ust, cb, cv_cb, op, timed, blobVars, semVars, cvVars,
                   nr_readers, rw_readers, rw_writers, countVars, wake_src, csVars>>

(* uth_rwlock_unlock: the call and spin_pdr_lock(&rwl->lock) *)
RwUnlockLock(t) ==
    /\ Running(t) /\ MayRwUnlock(t)
    /\ rw_lock = NoOne
    /\ rw_lock' = Uth(t)
    /\ rw_st' = [rw_st EXCEPT ![t] = "none"]
    /\ pc' = [pc EXCEPT ![t] = "rw_unlock_locked"]
    /\ op' = [op EXCEPT ![t] = "unlock"]
    /\ UNCHANGED <<recVars, client, ust, cb, cv_cb, ret, timed, blobVars, semVars, cvVars,
                   nr_readers, has_writer, rw_readers, rw_writers, countVars,
                   wake_src, csVars>>

(* an unlock that lets the waiting readers in without counting them *)
rw_unlock_writer_uncounted ==
    IF sync_first(rw_writers) # NULL
    THEN [has_writer |-> has_writer, nr_readers |-> nr_readers,
          readers |-> rw_readers, writers |-> sync_get_next(rw_writers),
          restartees |-> <<sync_first(rw_writers)>>]
    ELSE [has_writer |-> FALSE, nr_readers |-> nr_readers,
          readers |-> <<>>, writers |-> rw_writers,
          restartees |-> rw_readers]

(* an unlock that lets only the first waiting reader in *)
rw_unlock_writer_one_reader ==
    IF sync_first(rw_writers) # NULL
    THEN [has_writer |-> has_writer, nr_readers |-> nr_readers,
          readers |-> rw_readers, writers |-> sync_get_next(rw_writers),
          restartees |-> <<sync_first(rw_writers)>>]
    ELSE [has_writer |-> FALSE,
          nr_readers |-> nr_readers + (IF rw_readers = <<>> THEN 0 ELSE 1),
          readers |-> sync_get_next(rw_readers), writers |-> rw_writers,
          restartees |-> IF rw_readers = <<>> THEN <<>> ELSE <<Head(rw_readers)>>]

(* a writer out that wakes the next writer and clears has_writer all the
   same *)
rw_unlock_writer_clears ==
    IF sync_first(rw_writers) # NULL
    THEN [has_writer |-> FALSE, nr_readers |-> nr_readers,
          readers |-> rw_readers, writers |-> sync_get_next(rw_writers),
          restartees |-> <<sync_first(rw_writers)>>]
    ELSE [has_writer |-> FALSE, nr_readers |-> nr_readers + Len(rw_readers),
          readers |-> <<>>, writers |-> rw_writers,
          restartees |-> rw_readers]

(* __rw_unlock_writer: the next writer if there is one, else has_writer =
   FALSE and every waiting reader, nr_readers++ for each.  The record is the
   rwlock's state and the restartees list afterwards. *)
rw_unlock_writer ==
    IF sync_first(rw_writers) # NULL
    THEN [has_writer |-> has_writer, nr_readers |-> nr_readers,
          readers |-> rw_readers, writers |-> sync_get_next(rw_writers),
          restartees |-> <<sync_first(rw_writers)>>]
    ELSE [has_writer |-> FALSE, nr_readers |-> nr_readers + Len(rw_readers),
          readers |-> <<>>, writers |-> rw_writers,
          restartees |-> rw_readers]

(* a last reader out that wakes the waiting writer and leaves has_writer
   clear *)
rw_unlock_reader_no_flag ==
    IF nr_readers - 1 = 0 /\ sync_first(rw_writers) # NULL
    THEN [has_writer |-> has_writer, nr_readers |-> nr_readers - 1,
          readers |-> rw_readers, writers |-> sync_get_next(rw_writers),
          restartees |-> <<sync_first(rw_writers)>>]
    ELSE [has_writer |-> has_writer, nr_readers |-> nr_readers - 1,
          readers |-> rw_readers, writers |-> rw_writers,
          restartees |-> <<>>]

(* a reader out that wakes the waiting writer with readers still inside *)
rw_unlock_reader_early ==
    IF sync_first(rw_writers) # NULL
    THEN [has_writer |-> TRUE, nr_readers |-> nr_readers - 1,
          readers |-> rw_readers, writers |-> sync_get_next(rw_writers),
          restartees |-> <<sync_first(rw_writers)>>]
    ELSE [has_writer |-> has_writer, nr_readers |-> nr_readers - 1,
          readers |-> rw_readers, writers |-> rw_writers,
          restartees |-> <<>>]

(* a last reader out that leaves the waiting writer where it is *)
rw_unlock_reader_no_wake ==
    [has_writer |-> has_writer, nr_readers |-> nr_readers - 1,
     readers |-> rw_readers, writers |-> rw_writers,
     restartees |-> <<>>]

(* __rw_unlock_reader: nr_readers--; the last reader out wakes the next
   writer and sets has_writer for it *)
rw_unlock_reader ==
    IF nr_readers - 1 = 0 /\ sync_first(rw_writers) # NULL
    THEN [has_writer |-> TRUE, nr_readers |-> nr_readers - 1,
          readers |-> rw_readers, writers |-> sync_get_next(rw_writers),
          restartees |-> <<sync_first(rw_writers)>>]
    ELSE [has_writer |-> has_writer, nr_readers |-> nr_readers - 1,
          readers |-> rw_readers, writers |-> rw_writers,
          restartees |-> <<>>]

(* uth_rwlock_unlock: has_writer tells which side unlocks *)
rw_unlock == IF has_writer THEN rw_unlock_writer ELSE rw_unlock_reader

(* the unlock proper, under the lock, then spin_pdr_unlock *)
RwUnlockBody(t) ==
    /\ Running(t) /\ pc[t] = "rw_unlock_locked"
    /\ has_writer' = rw_unlock.has_writer
    /\ nr_readers' = rw_unlock.nr_readers
    /\ rw_readers' = rw_unlock.readers
    /\ rw_writers' = rw_unlock.writers
    /\ restartees' = [restartees EXCEPT ![t] = rw_unlock.restartees]
    /\ wake_src' = NoteWakeAll(wake_src, rw_unlock.restartees, "pop")
    /\ rw_lock' = NoOne
    /\ pc' = [pc EXCEPT ![t] = IF rw_unlock.restartees = <<>>
                               THEN "done" ELSE "rw_unlock_wake"]
    /\ UNCHANGED <<recVars, client, ust, cb, cv_cb, op, ret, timed, blobVars, semVars,
                   cv_lock, cv_q, cv_uth, countVars, csVars, rw_st>>

(* an unlock that wakes the first of its restartees and drops the others *)
RwUnlockWakeFirstOnly(t) ==
    /\ Running(t) /\ pc[t] = "rw_unlock_wake"
    /\ ust' = uthread_runnable(ust, sync_first(restartees[t]))
    /\ restartees' = [restartees EXCEPT ![t] = <<>>]
    /\ pc' = [pc EXCEPT ![t] = "done"]
    /\ UNCHANGED <<recVars, client, cb, cv_cb, op, timed, ret, blobVars, semVars, cv_lock,
                   cv_q, cv_uth, rwVars, countVars, wake_src, csVars, rw_st>>

(* TAILQ_FOREACH_SAFE(i, &restartees, sync_next, safe) uthread_runnable(i);
   one uthread per step *)
RwUnlockWake(t) ==
    /\ Running(t) /\ pc[t] = "rw_unlock_wake"
    /\ ust' = uthread_runnable(ust, sync_first(restartees[t]))
    /\ restartees' = [restartees EXCEPT ![t] = sync_get_next(@)]
    /\ pc' = [pc EXCEPT ![t] = IF sync_get_next(restartees[t]) = <<>>
                               THEN "done" ELSE "rw_unlock_wake"]
    /\ UNCHANGED <<recVars, client, cb, cv_cb, op, ret, timed, blobVars, semVars, cv_lock,
                   cv_q, cv_uth, rwVars, countVars, wake_src, csVars, rw_st>>

(* ========================= timeout_handler ============================= *)

(* blob->lock_ptr and blob->sync_ptr *)
blob_lock(t) == IF blob_sync[t] = "sem" THEN sem_lock ELSE cv_lock
blob_queue(t) == IF blob_sync[t] = "sem" THEN sem_q ELSE cv_q

(* the alarm fires: spin_pdr_lock(blob->lock_ptr) *)
HandlerLock(t) ==
    /\ alarm[t] = "armed"
    /\ blob_lock(t) = NoOne
    /\ sem_lock' = IF blob_sync[t] = "sem" THEN Alarm(t) ELSE sem_lock
    /\ cv_lock' = IF blob_sync[t] = "sem" THEN cv_lock ELSE Alarm(t)
    /\ alarm' = [alarm EXCEPT ![t] = "h_locked"]
    /\ UNCHANGED <<recVars, client, thrVars, timed_out, blob_sync, sem_count, sem_q, up_uth,
                   cb_uth, cv_q, cv_uth, restartees, rwVars, countVars, wake_src,
                   csVars, rw_st>>

(* a handler that reports the timeout without looking at what
   __uth_sync_get_uth found *)
handler_timed_out_always(t) == TRUE

(* if (__uth_sync_get_uth(sync_ptr, uth)) blob->timed_out = TRUE; *)
handler_timed_out(t) ==
    IF sync_get_uth_found(blob_queue(t), t) THEN TRUE ELSE timed_out[t]

(* the handler takes the uthread off the queue if it is still there, then
   spin_pdr_unlock(blob->lock_ptr) *)
HandlerRemove(t) ==
    /\ alarm[t] = "h_locked"
    /\ timed_out' = [timed_out EXCEPT ![t] = handler_timed_out(t)]
    /\ wake_src' = NoteWake(wake_src,
                            IF sync_get_uth_found(blob_queue(t), t) THEN t ELSE NULL,
                            "timeout")
    /\ sem_q' = IF blob_sync[t] = "sem" THEN sync_get_uth(sem_q, t) ELSE sem_q
    /\ cv_q' = IF blob_sync[t] = "sem" THEN cv_q ELSE sync_get_uth(cv_q, t)
    /\ sem_lock' = IF blob_sync[t] = "sem" THEN NoOne ELSE sem_lock
    /\ cv_lock' = IF blob_sync[t] = "sem" THEN cv_lock ELSE NoOne
    /\ alarm' = [alarm EXCEPT ![t] = IF handler_timed_out(t) THEN "h_wake" ELSE "done"]
    /\ UNCHANGED <<recVars, client, thrVars, blob_sync, sem_count, up_uth, cb_uth, cv_uth,
                   restartees, rwVars, countVars, csVars, rw_st>>

(* if (blob->timed_out) uthread_runnable(blob->uth); *)
HandlerWake(t) ==
    /\ alarm[t] = "h_wake"
    /\ ust' = uthread_runnable(ust, IF timed_out[t] THEN t ELSE NULL)
    /\ alarm' = [alarm EXCEPT ![t] = "done"]
    /\ UNCHANGED <<recVars, client, pc, cb, cv_cb, op, ret, timed, timed_out, blob_sync,
                   semVars, cvVars, rwVars, countVars, wake_src, csVars, rw_st>>

(* ============================ callers ================================== *)

(* the operation has returned *)
Acquired(t) == op[t] \in {"down", "trydown"} /\ ret[t] = "true"

(* the caller's script after the call: the mutex user goes on to x++ *)
next_pc(t) == IF client = "mutex" /\ Acquired(t) THEN "cs_read" ELSE "idle"

next_step(t) ==
    CASE client = "mutex" /\ op[t] = "up" -> step[t] + 1
      [] client = "rec" /\ op[t] \in {"r_lock", "r_trylock"} /\ ret[t] = "true" -> step[t] + 1
      [] client = "rec" /\ op[t] = "r_unlock" -> step[t] - 1
      [] client = "cvflag" /\ Waiter(t) /\ op[t] = "up" -> 1
      [] client \in {"cvbcast", "cvearly"} /\ op[t] \in {"cv_wait", "up", "signal", "broadcast"}
            -> step[t] + 1
      [] client = "cvflag" /\ ~Waiter(t) /\ op[t] \in {"signal", "broadcast"} -> 2
      [] client = "pingpong" /\ op[t] \in {"signal", "up"} -> step[t] + 1
      [] client = "rwdrain"
           /\ op[t] \in {"rdlock", "try_rdlock", "wrlock", "try_wrlock"} -> 1
      [] OTHER -> step[t]

Return(t) ==
    /\ Running(t) /\ pc[t] = "done" /\ r_pc[t] = "none"
    /\ pc' = [pc EXCEPT ![t] = next_pc(t)]
    /\ step' = [step EXCEPT ![t] = next_step(t)]
    /\ op' = [op EXCEPT ![t] = "none"]
    /\ ret' = [ret EXCEPT ![t] = "none"]
    /\ timed' = [timed EXCEPT ![t] = FALSE]
    /\ wake_src' = [wake_src EXCEPT ![t] = {}]
    /\ UNCHANGED <<recVars, client, ust, cb, cv_cb, blobVars, semVars, cvVars, rwVars,
                   countVars, x, tmp, flag, rw_st>>

(* x++ inside the critical section: a load, then a store *)
CsRead(t) ==
    /\ Running(t) /\ pc[t] = "cs_read"
    /\ tmp' = [tmp EXCEPT ![t] = x]
    /\ pc' = [pc EXCEPT ![t] = "cs_write"]
    /\ UNCHANGED <<recVars, client, ust, cb, cv_cb, op, ret, timed, blobVars, semVars, cvVars,
                   rwVars, countVars, wake_src, x, step, flag, rw_st>>

CsWrite(t) ==
    /\ Running(t) /\ pc[t] = "cs_write"
    /\ x' = tmp[t] + 1
    /\ tmp' = [tmp EXCEPT ![t] = 0]
    /\ pc' = [pc EXCEPT ![t] = "cs_unlock"]
    /\ UNCHANGED <<recVars, client, ust, cb, cv_cb, op, ret, timed, blobVars, semVars, cvVars,
                   rwVars, countVars, wake_src, step, flag, rw_st>>

(* the waker makes the predicate true, holding the mutex *)
SetFlag(t) ==
    /\ Running(t) /\ client = "cvflag" /\ ~Waiter(t)
    /\ pc[t] = "idle" /\ t \in held /\ step[t] = 0
    /\ flag' = TRUE
    /\ step' = [step EXCEPT ![t] = 1]
    /\ UNCHANGED <<recVars, client, thrVars, blobVars, semVars, cvVars, rwVars, countVars,
                   wake_src, x, tmp, rw_st>>

(* flag = 0 by uthread 1 once it has seen flag == 1, flag = 1 by uthread 2,
   each holding the mutex *)
PpFlag(t) ==
    /\ Running(t) /\ client = "pingpong"
    /\ pc[t] = "idle" /\ t \in held /\ step[t] = 0
    /\ Waiter(t) => flag
    /\ flag' = Ponger(t)
    /\ step' = [step EXCEPT ![t] = 1]
    /\ UNCHANGED <<recVars, client, thrVars, blobVars, semVars, cvVars, rwVars, countVars,
                   wake_src, x, tmp, rw_st>>

(* ========================== specifications ============================= *)

InitCommon ==
    /\ pc = [t \in AllThreads |-> "idle"]
    /\ ust = [t \in AllThreads |-> "runnable"]
    /\ cb = [t \in AllThreads |-> "none"]
    /\ cv_cb = [t \in AllThreads |-> "none"]
    /\ op = [t \in AllThreads |-> "none"]
    /\ ret = [t \in AllThreads |-> "none"]
    /\ timed = [t \in AllThreads |-> FALSE]
    /\ timed_out = [t \in AllThreads |-> FALSE]
    /\ blob_sync = [t \in AllThreads |-> "sem"]
    /\ alarm = [t \in AllThreads |-> "off"]
    /\ sem_lock = NoOne
    /\ sem_q = <<>>
    /\ up_uth = [t \in AllThreads |-> NULL]
    /\ cb_uth = [t \in AllThreads |-> NULL]
    /\ cv_lock = NoOne
    /\ cv_q = <<>>
    /\ cv_uth = [t \in AllThreads |-> NULL]
    /\ restartees = [t \in AllThreads |-> <<>>]
    /\ rw_lock = NoOne
    /\ nr_readers = 0
    /\ has_writer = FALSE
    /\ rw_readers = <<>>
    /\ rw_writers = <<>>
    /\ held = {}
    /\ n_up = 0
    /\ n_down = 0
    /\ wake_src = [t \in AllThreads |-> {}]
    /\ x = 0
    /\ tmp = [t \in AllThreads |-> 0]
    /\ step = [t \in AllThreads |-> 0]
    /\ flag = FALSE
    /\ rw_st = [t \in AllThreads |-> "none"]
    /\ r_holder = NULL
    /\ r_count = 0
    /\ r_pc = [t \in AllThreads |-> "none"]
    /\ old_count = [t \in AllThreads |-> 0]

(* uth_semaphore_init(sem, count) *)
InitSem ==
    /\ InitCommon
    /\ client = "sem"
    /\ sem_count \in 0..MaxCount
    /\ init_count = sem_count

(* the same, the callers' ups and successful downs being counted *)
InitSemCount ==
    /\ InitCommon
    /\ client = "semcount"
    /\ sem_count \in 0..MaxCount
    /\ init_count = sem_count

(* uth_mutex_init: __uth_mutex_init sets count = 1 *)
InitMutex ==
    /\ InitCommon
    /\ client = "mutex"
    /\ sem_count = 1
    /\ init_count = 1

(* uth_mutex_init and uth_cond_var_init *)
InitCv ==
    /\ InitCommon
    /\ client = "cv"
    /\ sem_count = 1
    /\ init_count = 1

InitCvFlag ==
    /\ InitCommon
    /\ client = "cvflag"
    /\ sem_count = 1
    /\ init_count = 1

(* flag = 0, a mutex and a CV *)
InitPingPong ==
    /\ InitCommon
    /\ client = "pingpong"
    /\ sem_count = 1
    /\ init_count = 1

(* uth_rwlock_init; the semaphore is not used *)
InitRw ==
    /\ InitCommon
    /\ client = "rw"
    /\ sem_count = 0
    /\ init_count = 0

(* uth_rwlock_init; every uthread has its one request to make *)
InitRwDrain ==
    /\ InitCommon
    /\ client = "rwdrain"
    /\ sem_count = 0
    /\ init_count = 0

(* a semaphore without units: every down blocks *)
InitSemFifo ==
    /\ InitCommon
    /\ client = "semfifo"
    /\ sem_count = 0
    /\ init_count = 0

(* a CV and its mutex, for waiters and one waker *)
InitCvFifo ==
    /\ InitCommon
    /\ client = "cvfifo"
    /\ sem_count = 1
    /\ init_count = 1

(* a CV and its mutex, for waiters that wait once and one waker *)
InitCvBcast ==
    /\ InitCommon
    /\ client = "cvbcast"
    /\ sem_count = 1
    /\ init_count = 1

(* a CV and its mutex, for one-time waiters, the first of which may time
   its wait, and one waker *)
InitCvEarly ==
    /\ InitCommon
    /\ client = "cvearly"
    /\ sem_count = 1
    /\ init_count = 1

(* uth_recurse_mutex_init: the embedded mutex free, no lockholder, count 0 *)
InitRec ==
    /\ InitCommon
    /\ client = "rec"
    /\ sem_count = 1
    /\ init_count = 1

DownStep(t) ==
    \/ SemDownFast(t) \/ SemDownSlow(t) \/ SemYield(t)
    \/ SemCbEnqueue(t) \/ SemCbUnlock(t) \/ SemDownReturn(t)

UpStep(t) == SemUpLock(t) \/ SemUpPop(t) \/ SemUpWake(t)

HandlerStep(t) == HandlerLock(t) \/ HandlerRemove(t) \/ HandlerWake(t)

SemStep(t) ==
    \/ \E tm \in BOOLEAN : SemDownLock(t, tm)
    \/ DownStep(t)
    \/ SemTryLock(t) \/ SemTryDown(t)
    \/ UpStep(t)
    \/ HandlerStep(t)
    \/ Return(t)

CvWaitStep(t) ==
    \/ CvYield(t) \/ CvCbEnqueue(t) \/ CvCbUnlock(t)
    \/ CvCbUpLock(t) \/ CvCbUpPop(t) \/ CvCbUpWake(t)
    \/ CvWaitUnset(t) \/ CvRelock(t)

CvWakeStep(t) ==
    \/ CvSignalLock(t) \/ CvSignalPop(t) \/ CvSignalWake(t)
    \/ CvBroadcastLock(t) \/ CvBroadcastSwap(t) \/ CvBroadcastWake(t)

CvStep(t) ==
    \/ \E tm \in BOOLEAN : CvWaitLock(t, tm)
    \/ CvWaitStep(t) \/ CvWakeStep(t)
    \/ SemDownLock(t, FALSE) \/ DownStep(t) \/ UpStep(t)
    \/ HandlerStep(t)
    \/ Return(t)

CvFlagStep(t) ==
    \/ CvWaitLock(t, FALSE)
    \/ CvWaitStep(t) \/ CvWakeStep(t)
    \/ SemDownLock(t, FALSE) \/ DownStep(t) \/ UpStep(t)
    \/ Return(t) \/ SetFlag(t)

RwLockStep(t) ==
    \/ RwRdLock(t) \/ RwRdFast(t) \/ RwRdYield(t) \/ RwRdCbEnqueue(t)
    \/ RwCbUnlock(t) \/ RwRdReturn(t)
    \/ RwTryRdLock(t) \/ RwTryRd(t)
    \/ RwWrLock(t) \/ RwWrFast(t) \/ RwWrYield(t) \/ RwWrCbEnqueue(t)
    \/ RwWrReturn(t)
    \/ RwTryWrLock(t) \/ RwTryWr(t)
    \/ RwUnlockLock(t) \/ RwUnlockBody(t) \/ RwUnlockWake(t)

RwStep(t) == RwLockStep(t) \/ Return(t)

NextSem == \E t \in Pop : SemStep(t)

NextMutex == \E t \in Pop : SemStep(t) \/ CsRead(t) \/ CsWrite(t)

NextCv == \E t \in Pop : CvStep(t)

NextCvFlag == \E t \in Pop : CvFlagStep(t)

SpecSem == InitSem /\ [][NextSem]_vars

SpecSemCount == InitSemCount /\ [][NextSem]_vars

SpecMutex == InitMutex /\ [][NextMutex]_vars

SpecCv == InitCv /\ [][NextCv]_vars

NextRw == \E t \in Pop : RwStep(t)

SpecRw == InitRw /\ [][NextRw]_vars

(* every uthread makes one request and unlocks what it got: no request
   arrives after the uthreads' first ones, and it is enough that the 2LS and
   the vcores do not stop while a uthread or a callback can take a step *)
SpecDrain == InitRwDrain /\ [][NextRw]_vars /\ WF_vars(NextRw)

RecLockStep(t) ==
    \/ \E tm \in BOOLEAN : RLock(t, tm)
    \/ RLockSet(t) \/ RTryLock(t) \/ RTrySet(t)
    \/ RUnlock(t) \/ RUnlockReturn(t)

RecWaitStep(t) ==
    \/ \E tm \in BOOLEAN : RWait(t, tm)
    \/ RWaitRestore(t)
    \/ \E tm \in BOOLEAN : CvWaitLock(t, tm)
    \/ CvWaitStep(t) \/ CvWakeStep(t)

NextRec == \E t \in Pop : SemStep(t) \/ RecLockStep(t)

SpecRec == InitRec /\ [][NextRec]_vars

NextRecCv == \E t \in Pop : SemStep(t) \/ RecLockStep(t) \/ RecWaitStep(t)

SpecRecCv == InitRec /\ [][NextRecCv]_vars

(* queues with more than one waiter and a waker: the semaphore's, the
   CV's, the rwlock's *)
InitFifo == InitSemFifo \/ InitCvFifo \/ InitRw

NextFifo ==
    \E t \in Pop :
        \/ SemStep(t)
        \/ \E tm \in BOOLEAN : CvWaitLock(t, tm)
        \/ CvWaitStep(t) \/ CvWakeStep(t)
        \/ RwLockStep(t)

SpecFifo == InitFifo /\ [][NextFifo]_vars

(* the scripted waiter and wakers; the spinlocks are fair and the 2LS runs
   every runnable uthread and every yield callback *)
UthStep(t) ==
    \/ CvWaitLock(t, FALSE) \/ CvYield(t) \/ CvWaitUnset(t) \/ CvRelock(t)
    \/ CvWakeStep(t)
    \/ SemDownLock(t, FALSE) \/ SemDownFast(t) \/ SemDownSlow(t) \/ SemYield(t)
    \/ SemDownReturn(t) \/ UpStep(t)
    \/ Return(t) \/ SetFlag(t)

CbStep(t) ==
    \/ SemCbEnqueue(t) \/ SemCbUnlock(t)
    \/ CvCbEnqueue(t) \/ CvCbUnlock(t)
    \/ CvCbUpLock(t) \/ CvCbUpPop(t) \/ CvCbUpWake(t)

SpecCvFlag ==
    /\ InitCvFlag /\ [][NextCvFlag]_vars
    /\ \A t \in Threads : SF_vars(UthStep(t)) /\ SF_vars(CbStep(t))

CvBcastStep(t) ==
    \/ CvWaitLock(t, FALSE)
    \/ CvWaitStep(t) \/ CvWakeStep(t)
    \/ SemDownLock(t, FALSE) \/ DownStep(t) \/ UpStep(t)
    \/ Return(t)

NextCvWake == \E t \in Pop : CvBcastStep(t)

(* the CV's one-time waiters and their waker; every call is made a bounded
   number of times, so it is enough that the 2LS and the vcores do not
   stop while a uthread or a callback can take a step *)
SpecCvWake == InitCvBcast /\ [][NextCvWake]_vars /\ WF_vars(NextCvWake)

PingPongStep(t) ==
    \/ CvWaitLock(t, FALSE)
    \/ CvWaitStep(t)
    \/ CvSignalLock(t) \/ CvSignalPop(t) \/ CvSignalWake(t)
    \/ SemDownLock(t, FALSE) \/ DownStep(t) \/ UpStep(t)
    \/ Return(t) \/ PpFlag(t)

NextPingPong == \E t \in Pop : PingPongStep(t)

(* the two uthreads of the ping-pong; each runs its statements once, so it
   is enough that the 2LS and the vcores do not stop while a uthread or a
   callback can take a step *)
SpecPingPong == InitPingPong /\ [][NextPingPong]_vars /\ WF_vars(NextPingPong)

(* the primitives that have try operations: a semaphore, an rwlock *)
InitTry == InitSem \/ InitRw

NextTry == \E t \in Pop : SemStep(t) \/ RwStep(t)

SpecTry == InitTry /\ [][NextTry]_vars

NextEarly ==
    \E t \in Pop : CvBcastStep(t) \/ CvWaitLock(t, TRUE) \/ HandlerStep(t)

(* one-time waiters, a timeout and one waker: every call is made a bounded
   number of times and an armed alarm goes off unless it is unset, so it is
   enough that the 2LS, the vcores and the alarm service do not stop while
   one of them can take a step *)
SpecEarly == InitCvEarly /\ [][NextEarly]_vars /\ WF_vars(NextEarly)

(* a semaphore, or a mutex with a CV, or an rwlock *)
Init == InitSem \/ InitCv \/ InitRw

Next ==
    \E t \in Pop :
        \/ SemStep(t)
        \/ \E tm \in BOOLEAN : CvWaitLock(t, tm)
        \/ CvWaitStep(t) \/ CvWakeStep(t)
        \/ RwLockStep(t)

Spec == Init /\ [][Next]_vars

(* ============================ properties =============================== *)

(* C1: a mutex is held by at most one uthread at a time: at most one uthread
   is between a successful lock and its unlock, so at most one is inside
   x++; and when every one of the NThreads uthreads has run lock; x++;
   unlock MaxIter times, x is exactly NThreads * MaxIter. *)
C1_MutexExclusion ==
    /\ Cardinality(held) <= 1
    /\ Cardinality({t \in Threads : pc[t] \in {"cs_read", "cs_write", "cs_unlock"}}) <= 1
    /\ (\A t \in Threads : pc[t] = "idle" /\ step[t] = MaxIter)
          => x = NThreads * MaxIter

(* every uthread has finished its iterations and the mutex is free again *)
C1_AllDone ==
    /\ \A t \in Threads : pc[t] = "idle" /\ step[t] = MaxIter
    /\ x = NThreads * MaxIter
    /\ sem_count = 1

(* C2: whenever the semaphore's spinlock is not held, count >= 0, and
   count > 0 implies that the wait queue is empty. *)
C2_SemInvariant ==
    sem_lock = NoOne =>
        /\ sem_count >= 0
        /\ sem_count > 0 => sync_is_empty(sem_q)

(* the lock is free and a uthread sits in the wait queue *)
C2_WaiterQueued ==
    /\ sem_lock = NoOne
    /\ ~sync_is_empty(sem_q)
    /\ sem_count = 0

(* C3: an up that finds a waiter pops the head of the queue and leaves the
   count alone; only an up that finds the queue empty raises the count, by
   one.  A down woken by an up's pop returns success.  With count initialised
   to 0, one down that succeeded and one up, all calls over, the count is 0. *)
C3_DirectHandoff ==
    /\ [][\A t \in Threads :
            (pc[t] = "sem_up_locked" /\ pc'[t] # "sem_up_locked") =>
                IF sem_q # <<>>
                THEN /\ sem_count' = sem_count
                     /\ sem_q' = Tail(sem_q)
                     /\ up_uth'[t] = Head(sem_q)
                ELSE /\ sem_count' = sem_count + 1
                     /\ sem_q' = <<>>]_vars
    /\ [](\A t \in Threads :
            (pc[t] = "done" /\ op[t] = "down" /\ wake_src[t] = {"pop"})
                => ret[t] = "true")
    /\ []((/\ init_count = 0 /\ n_up = 1 /\ n_down = 1
           /\ \A t \in Threads : pc[t] \in {"idle", "done"})
            => sem_count = 0)

(* count started at 0, a down blocked, the single up popped it: the down has
   returned success and the count is still 0 *)
C3_HandedOver ==
    /\ init_count = 0 /\ n_up = 1 /\ n_down = 1
    /\ sem_count = 0
    /\ \E t \in Threads :
          /\ pc[t] = "done" /\ op[t] = "down" /\ ~timed[t]
          /\ wake_src[t] = {"pop"} /\ ret[t] = "true"
    /\ \A t \in Threads : pc[t] \in {"idle", "done"}

(* C4: no lost wakeup.  Uthread 1 runs lock(mtx); while (!flag) wait(cv,
   mtx); unlock(mtx); the others run lock(mtx); flag = TRUE; unlock(mtx) with
   a signal or a broadcast after flag is set, before or after the unlock.
   Whenever uthread 1 is inside wait, wait eventually returns, with flag TRUE
   and the mutex held again. *)
C4_NoLostWakeup ==
    \A t \in Threads :
        (op[t] = "cv_wait" /\ pc[t] # "done")
            ~> (op[t] = "cv_wait" /\ pc[t] = "done" /\ flag /\ t \in held)

(* uthread 1 slept on the CV, a waker took it off the queue, and wait has
   returned with flag set *)
C4_WokenWithFlag ==
    /\ client = "cvflag"
    /\ op[1] = "cv_wait" /\ pc[1] = "done"
    /\ flag /\ 1 \in held

(* C5: uth_cond_var_wait and uth_cond_var_timed_wait return only once the
   caller holds mtx again, whether the wait was signalled or timed out (the
   timed wait then returns false): at the return the caller is the one holder
   of the mutex and the mutex's count is 0. *)
C5_WaitReturnsWithMutex ==
    \A t \in Threads :
        (pc[t] = "done" /\ op[t] = "cv_wait") =>
            /\ ret[t] \in {"true", "false"}
            /\ held = {t}
            /\ sem_lock # Uth(t)
            /\ sem_lock = NoOne => sem_count = 0

(* a timed wait has timed out and returned false, the mutex retaken *)
C5_TimedOutWithMutex ==
    \E t \in Threads :
        /\ pc[t] = "done" /\ op[t] = "cv_wait"
        /\ timed[t] /\ ret[t] = "false"
        /\ t \in held

(* C6: the race between the alarm handler and a waker over a blocked timed
   wait (uth_semaphore_timed_down, uth_cond_var_timed_wait) has one winner:
   at most one of them takes the waiter off the queue, and a waiter that runs
   again was taken off by exactly one.  The operation reports false iff the
   handler took the waiter off and true iff a waker popped it (or, for the
   semaphore, the fast path took a unit without blocking).  While the handler
   holds the lock for its removal, the waiter's yield callback has already
   enqueued the waiter and released the lock. *)
C6_TimeoutRaceOneWinner ==
    \A t \in Threads :
        /\ Cardinality(wake_src[t]) <= 1
        /\ (pc[t] \in {"sem_woken", "cv_woken"} /\ ust[t] # "blocked")
              => Cardinality(wake_src[t]) = 1
        /\ (pc[t] = "done" /\ op[t] = "down" /\ timed[t]) =>
              /\ ret[t] = "false" <=> wake_src[t] = {"timeout"}
              /\ ret[t] = "true" <=> wake_src[t] \subseteq {"pop"}
        /\ (pc[t] = "cv_relock" /\ timed[t]) =>
              /\ ret[t] = "false" <=> wake_src[t] = {"timeout"}
              /\ ret[t] = "true" <=> wake_src[t] = {"pop"}
        /\ alarm[t] = "h_locked" =>
              IF blob_sync[t] = "sem"
              THEN pc[t] = "sem_woken" /\ cb[t] = "none"
              ELSE pc[t] = "cv_woken" /\ cv_cb[t] \notin {"cv_cb_enqueue", "cv_cb_unlock"}

(* the handler ran after a waker had popped the waiter: it found the waiter
   absent and left timed_out FALSE *)
C6_HandlerLostRace ==
    \E t \in Threads :
        /\ timed[t] /\ pc[t] \in {"sem_woken", "cv_woken"}
        /\ alarm[t] = "done" /\ ~timed_out[t]
        /\ wake_src[t] = {"pop"}

(* C7: a timed down that the handler takes off the queue returns failure,
   and a timed down that has returned failure is in the semaphore's queue no
   more and took no unit: once every call is over the queue is empty and
   count is the initial count plus the ups minus the successful downs.  With
   count initialised to 0, timed downs that all timed out and then one up,
   count is 1. *)
C7_TimeoutCorrect ==
    /\ \A t \in Threads :
          (pc[t] = "done" /\ op[t] = "down" /\ timed[t]) =>
              /\ wake_src[t] = {"timeout"} => ret[t] = "false"
              /\ ret[t] = "false" => ~InQueue(sem_q, t) /\ ust[t] = "runnable"
    /\ (\A t \in Threads : pc[t] \in {"idle", "done"}) =>
          /\ sync_is_empty(sem_q)
          /\ sem_count = init_count + n_up - n_down
          /\ (init_count = 0 /\ n_down = 0 /\ n_up = 1) => sem_count = 1

(* count started at 0, a timed down timed out and returned failure, and the
   up that came after it found no waiter: count is 1 *)
C7_TimedOutThenUp ==
    /\ init_count = 0 /\ n_down = 0 /\ n_up = 1
    /\ \E t \in Threads :
          /\ pc[t] = "done" /\ op[t] = "down" /\ timed[t]
          /\ ret[t] = "false" /\ wake_src[t] = {"timeout"}
    /\ \A t \in Threads : pc[t] \in {"idle", "done"}
    /\ sem_count = 1 /\ sync_is_empty(sem_q)

(* C8: has_writer implies nr_readers = 0; whenever the rwlock's spinlock is
   not held, nr_readers is the number of uthreads that hold the read lock or
   were granted it by an unlock and have not run yet; at most one uthread
   holds or was granted the write lock, has_writer is set while it does, and
   no reader holds the lock with it. *)
C8_RwInvariants ==
    /\ has_writer => nr_readers = 0
    /\ rw_lock = NoOne =>
          nr_readers = Cardinality({t \in Many :
                          \/ rw_st[t] = "reader"
                          \/ pc[t] = "rw_rd_woken" /\ wake_src[t] = {"pop"}})
    /\ Cardinality({t \in Many :
            \/ rw_st[t] = "writer"
            \/ pc[t] = "rw_wr_woken" /\ wake_src[t] = {"pop"}}) <= 1
    /\ (\E t \in Many : rw_st[t] = "writer") =>
          has_writer /\ ~\E u \in Many : rw_st[u] = "reader"

(* a writer's unlock has let two waiting readers in at once *)
C8_ReadersGranted ==
    /\ rw_lock = NoOne
    /\ nr_readers >= 2
    /\ \E t \in Many : pc[t] = "rw_rd_woken" /\ wake_src[t] = {"pop"}

(* C9: whenever the rwlock's spinlock is not held and has_writer is FALSE,
   the reader queue is empty. *)
C9_ReaderQueueEmpty ==
    (rw_lock = NoOne /\ ~has_writer) => sync_is_empty(rw_readers)

(* the last writer has left and the readers that waited behind it are all
   off the queue *)
C9_ReadersDrained ==
    /\ rw_lock = NoOne /\ ~has_writer
    /\ sync_is_empty(rw_readers)
    /\ Cardinality({t \in Many : pc[t] = "rw_rd_woken" /\ wake_src[t] = {"pop"}}) >= 2

(* C10: no stuck waiter.  Every wakeup takes a waiter off a non-empty queue
   and none puts one on: an up (a mutex unlock) and a signal take one, a
   broadcast takes all, an rwlock unlock by the writer takes the next writer
   or else every reader, an rwlock unlock by the last reader takes the next
   writer; so n wakeups empty a queue of n waiters when nobody joins it.  And
   a blocked uthread is never lost: it is about to be enqueued, or on a
   queue, or in the hands of the waker or the handler that took it off. *)
C10_NoStuckWaiter ==
    /\ [][\A t \in AllThreads :
            /\ ((pc[t] = "sem_up_locked" /\ pc'[t] # pc[t])
                 \/ (cv_cb[t] = "cv_cb_up_locked" /\ cv_cb'[t] # cv_cb[t]))
                  => sem_q' = sync_get_next(sem_q)
            /\ (pc[t] = "cv_signal_locked" /\ pc'[t] # pc[t])
                  => cv_q' = sync_get_next(cv_q)
            /\ (pc[t] = "cv_bcast_locked" /\ pc'[t] # pc[t])
                  => cv_q' = <<>>
            /\ (pc[t] = "rw_unlock_locked" /\ pc'[t] # pc[t]) =>
                  IF has_writer
                  THEN IF rw_writers # <<>>
                       THEN rw_writers' = Tail(rw_writers) /\ rw_readers' = rw_readers
                       ELSE rw_readers' = <<>> /\ rw_writers' = <<>>
                  ELSE /\ rw_readers' = rw_readers
                       /\ rw_writers' = IF nr_readers = 1
                                        THEN sync_get_next(rw_writers)
                                        ELSE rw_writers]_vars
    /\ [](\A t \in AllThreads :
            ust[t] = "blocked" =>
                \/ cb[t] \in {"sem_cb_enqueue", "rw_rd_cb_enqueue", "rw_wr_cb_enqueue"}
                \/ cv_cb[t] = "cv_cb_enqueue" /\ pc[t] = "cv_woken"
                \/ InQueue(sem_q, t) \/ InQueue(cv_q, t)
                \/ InQueue(rw_readers, t) \/ InQueue(rw_writers, t)
                \/ alarm[t] = "h_wake"
                \/ \E u \in AllThreads :
                      \/ up_uth[u] = t \/ cb_uth[u] = t \/ cv_uth[u] = t
                      \/ InQueue(restartees[u], t))

(* two readers waited on the rwlock behind its writer; the writer's unlock
   took both off, the queues are empty and the two are being made runnable *)
C10_QueuesEmptied ==
    /\ client = "rw"
    /\ sync_is_empty(rw_readers) /\ sync_is_empty(rw_writers)
    /\ \E u \in Many : Len(restartees[u]) = 2
    /\ \A t \in Many : pc[t] \in {"rw_rd_woken", "rw_unlock_wake", "idle", "done"}

(* a uthread between two calls on the recursive mutex *)
RecAtRest(t) == pc[t] = "idle" /\ r_pc[t] = "none"

(* C11: recursive depth accounting.  A uthread that has locked the recursive
   mutex k times more than it has unlocked it is the owner with count k
   while k > 0 and is not the owner at k = 0; when every uthread has
   unlocked as often as it locked, there is no owner, the count is 0 and
   the embedded mutex is free.  A trylock by a uthread that is not the
   owner fails when it finds count > 0, and gets the mutex when it finds
   count 0 with every other uthread between two calls. *)
C11_DepthAccounting ==
    /\ [](\A t \in Threads : RecAtRest(t) =>
             IF step[t] > 0 THEN r_holder = t /\ r_count = step[t]
             ELSE r_holder # t)
    /\ []((\A t \in Threads : RecAtRest(t) /\ step[t] = 0) =>
             r_holder = NULL /\ r_count = 0 /\ sem_count = 1)
    /\ [][\A t \in Threads :
            (pc[t] = "sem_try_locked" /\ pc'[t] = "done") =>
                /\ r_count > 0 => ret'[t] = "false"
                /\ (r_count = 0 /\ \A u \in Threads \ {t} : RecAtRest(u))
                      => ret'[t] = "true"]_vars

(* the owner has locked twice and unlocked once: it still owns the mutex
   with count 1, and the other uthread's trylock has failed *)
C11_NestedUnlockOnce ==
    \E t \in Threads, u \in Threads :
        /\ pc[t] = "done" /\ op[t] = "r_unlock" /\ step[t] = 2
        /\ r_holder = t /\ r_count = 1
        /\ pc[u] = "done" /\ op[u] = "r_trylock" /\ ret[u] = "false"

(* the embedded mutex is a semaphore of one unit: locked when none is left *)
mtx_locked == ~sem_available(sem_count)

(* t is outside every call on the recursive mutex, or asleep inside one:
   on the embedded mutex's queue or on the condition variable's, its yield
   callback over *)
RecQuiet(t) ==
    \/ r_pc[t] = "none"
    \/ /\ InQueue(sem_q, t) \/ InQueue(cv_q, t)
       /\ cb[t] = "none" /\ cv_cb[t] = "none"

(* C12 as stated: in every reachable state, owner is none iff count == 0
   iff the embedded mutex is unlocked. *)
C12_IffEverywhere ==
    /\ r_holder = NULL <=> r_count = 0
    /\ r_count = 0 <=> ~mtx_locked

(* C12: recursive mutex state invariant.  An owner or a count above 0 is
   there only while the embedded mutex is locked; and whenever every
   uthread is outside lock, trylock, timed_lock, unlock and wait_recurse or
   asleep inside one, owner is none iff count == 0 iff the embedded mutex
   is unlocked. *)
C12_RecInvariant ==
    /\ (r_holder # NULL \/ r_count > 0) => mtx_locked
    /\ (\A t \in Threads : RecQuiet(t)) =>
          /\ r_holder = NULL <=> r_count = 0
          /\ r_count = 0 <=> ~mtx_locked

(* one uthread sleeps in wait_recurse with its depth of 2 put aside while
   the other owns the mutex and is between two calls *)
C12_OwnedDuringWait ==
    \E t \in Threads, u \in Threads :
        /\ InQueue(cv_q, t) /\ old_count[t] = 2 /\ r_pc[t] = "wait_cv"
        /\ r_holder = u /\ r_count >= 1 /\ mtx_locked
        /\ \A v \in Threads : RecQuiet(v)

(* C13: wait_recurse surrenders and restores the recursion depth.  While
   its caller sleeps on the condition variable the recursive mutex is not
   the caller's, and it is free altogether (no owner, count 0, embedded
   mutex unlocked) when no other uthread has taken it or is at it; when the
   wait returns, by a signal, a broadcast or the timeout, the caller owns
   the mutex with the count it had at the call. *)
C13_DepthRestored ==
    \A t \in Threads :
        /\ (r_pc[t] = "wait_cv" /\ InQueue(cv_q, t) /\ cv_cb[t] = "none") =>
              /\ r_holder # t /\ old_count[t] = step[t]
              /\ (\A u \in Threads \ {t} : RecAtRest(u) /\ step[u] = 0) =>
                    r_holder = NULL /\ r_count = 0 /\ ~mtx_locked
        /\ (pc[t] = "done" /\ op[t] = "r_wait") =>
              r_holder = t /\ r_count = step[t] /\ step[t] >= 1 /\ mtx_locked

(* a wait at depth 2 has timed out and returned with owner and count
   restored, while the other uthread is queued for the embedded mutex *)
C13_RestoredAfterTimeout ==
    \E t \in Threads, u \in Threads :
        /\ pc[t] = "done" /\ op[t] = "r_wait" /\ ret[t] = "false"
        /\ r_holder = t /\ r_count = 2
        /\ InQueue(sem_q, u)

(* C14: a recursive timed lock that fails leaves the state alone.  The
   lock of a uthread that is not the owner returns false only when it had
   a timeout and its wait for the embedded mutex timed out; the caller is
   then not the owner, and the return leaves owner and count as they were,
   those of the holder. *)
C14_TimedLockFailure ==
    /\ [](\A t \in Threads :
            (r_pc[t] = "lock_mtx" /\ pc[t] = "done" /\ ret[t] = "false") =>
                timed[t] /\ "timeout" \in wake_src[t] /\ r_holder # t)
    /\ [][\A t \in Threads :
            (r_pc[t] = "lock_mtx" /\ pc[t] = "done" /\ ret[t] = "false"
             /\ r_pc'[t] = "none") =>
                /\ r_holder' = r_holder /\ r_count' = r_count
                /\ op'[t] = "r_lock" /\ ret'[t] = "false"]_vars

(* a timed lock has returned false and the other uthread still owns the
   mutex two deep *)
C14_FailedHolderKept ==
    \E t \in Threads, u \in Threads :
        /\ t # u
        /\ pc[t] = "done" /\ op[t] = "r_lock" /\ ret[t] = "false"
        /\ r_holder = u /\ r_count = 2 /\ step[u] = 2

(* how many times uthread u is linked into sync object q *)
Links(q, u) == IF q = <<>> THEN 0 ELSE Cardinality({i \in 1..Len(q) : q[i] = u})

(* the links of u over the local sync objects of broadcast and rwlock unlock *)
RECURSIVE RestartLinksUpTo(_, _)
RestartLinksUpTo(u, n) ==
    IF n = 0 THEN 0
    ELSE (IF restartees[n] = <<>> THEN 0 ELSE Links(restartees[n], u))
         + RestartLinksUpTo(u, n - 1)

RestartLinks(u) == RestartLinksUpTo(u, Cardinality(AllThreads))

(* no uthread is linked twice into sync object q *)
LinkedOnce(q) == \A i \in 1..Len(q) : \A j \in 1..(i - 1) : q[i] # q[j]

(* u is on the local sync object of a broadcast or of an rwlock unlock *)
OnRestartees(u) == \E t \in AllThreads : InQueue(restartees[t], u)

(* C15: one queue at a time.  In every reachable state a uthread is linked
   at most once into at most one sync object: the semaphore's (the
   mutex's), the condition variable's, the rwlock's readers or writers, or
   the local one of a broadcast or an rwlock unlock.  Hence no enqueue ever
   finds its uthread already on a queue. *)
C15_OneQueueAtATime ==
    /\ LinkedOnce(sem_q) /\ LinkedOnce(cv_q)
    /\ LinkedOnce(rw_readers) /\ LinkedOnce(rw_writers)
    /\ \A i \in 1..Len(sem_q) :
          /\ ~InQueue(cv_q, sem_q[i]) /\ ~InQueue(rw_readers, sem_q[i])
          /\ ~InQueue(rw_writers, sem_q[i]) /\ ~OnRestartees(sem_q[i])
    /\ \A i \in 1..Len(cv_q) :
          /\ ~InQueue(rw_readers, cv_q[i]) /\ ~InQueue(rw_writers, cv_q[i])
          /\ ~OnRestartees(cv_q[i])
    /\ \A i \in 1..Len(rw_readers) :
          ~InQueue(rw_writers, rw_readers[i]) /\ ~OnRestartees(rw_readers[i])
    /\ \A i \in 1..Len(rw_writers) : ~OnRestartees(rw_writers[i])
    /\ \A t \in AllThreads :
          /\ LinkedOnce(restartees[t])
          /\ \A i \in 1..Len(restartees[t]) :
                \A u \in AllThreads \ {t} : ~InQueue(restartees[u], restartees[t][i])

(* a CV waiter was woken, found the mutex still locked and sleeps on the
   mutex's queue before its own __cv_wait_cb has released that mutex *)
C15_WokenEarlyOnMutex ==
    \E u \in Threads :
        /\ op[u] = "cv_wait" /\ cv_cb[u] # "none"
        /\ InQueue(sem_q, u) /\ ~InQueue(cv_q, u)

(* t is on a wait queue or on a waker's local restart queue *)
OnAQueue(t) ==
    \/ InQueue(sem_q, t) \/ InQueue(cv_q, t)
    \/ InQueue(rw_readers, t) \/ InQueue(rw_writers, t)
    \/ \E u \in AllThreads : InQueue(restartees[u], t)

(* u has yielded at the given place and has not been made runnable *)
Suspended(u, at) == ust[u] = "blocked" /\ pc[u] = at

(* C16: atomic enqueue and yield.  A uthread gets onto a wait queue only
   after it has yielded: while its yield callback has the enqueue ahead,
   the uthread is suspended, on no queue, and the primitive's spinlock,
   taken by the uthread for its state check, is still held; the callback
   releases the spinlock only with the uthread on the queue.  Hence a
   uthread on a queue is never running, and a uthread that a waker or the
   timeout handler has taken off a queue and has yet to make runnable is
   suspended. *)
C16_AtomicEnqueueYield ==
    /\ \A i \in 1..Len(sem_q) : Suspended(sem_q[i], "sem_woken")
    /\ \A i \in 1..Len(cv_q) : Suspended(cv_q[i], "cv_woken")
    /\ \A i \in 1..Len(rw_readers) : Suspended(rw_readers[i], "rw_rd_woken")
    /\ \A i \in 1..Len(rw_writers) : Suspended(rw_writers[i], "rw_wr_woken")
    /\ \A t \in AllThreads :
        /\ \A i \in 1..Len(restartees[t]) : ust[restartees[t][i]] = "blocked"
        /\ cb[t] = "sem_cb_enqueue" =>
              ust[t] = "blocked" /\ sem_lock = Uth(t) /\ ~OnAQueue(t)
        /\ cb[t] = "sem_cb_unlock" => sem_lock = Uth(t) /\ InQueue(sem_q, t)
        /\ cv_cb[t] = "cv_cb_enqueue" =>
              ust[t] = "blocked" /\ cv_lock = Uth(t) /\ ~OnAQueue(t)
        /\ cv_cb[t] = "cv_cb_unlock" => cv_lock = Uth(t) /\ InQueue(cv_q, t)
        /\ cb[t] \in {"rw_rd_cb_enqueue", "rw_wr_cb_enqueue"} =>
              ust[t] = "blocked" /\ rw_lock = Uth(t) /\ ~OnAQueue(t)
        /\ cb[t] = "rw_cb_unlock" =>
              /\ rw_lock = Uth(t)
              /\ InQueue(rw_readers, t) \/ InQueue(rw_writers, t)
        /\ alarm[t] = "h_wake" => ust[t] = "blocked"
        /\ up_uth[t] # NULL => ust[up_uth[t]] = "blocked"
        /\ cb_uth[t] # NULL => ust[cb_uth[t]] = "blocked"
        /\ cv_uth[t] # NULL => ust[cv_uth[t]] = "blocked"

(* a uthread's __semaphore_cb has put it on the semaphore's queue and has
   the spinlock yet to release, while another uthread is at the lock for
   an up *)
C16_EnqueuedLockHeld ==
    \E t \in Threads, u \in Threads :
        /\ cb[t] = "sem_cb_unlock" /\ InQueue(sem_q, t)
        /\ sem_lock = Uth(t) /\ ust[t] = "blocked"
        /\ t # u /\ pc[u] = "idle" /\ MayUnlock(u)

(* C17 as stated: with readers holding the rwlock and a writer blocked in
   wrlock, a further rdlock caller blocks. *)
C17_LateReadersBlock ==
    [][\A t \in Many :
          (pc[t] = "rw_rd_locked" /\ pc'[t] # pc[t]
           /\ nr_readers >= 1 /\ ~has_writer /\ ~sync_is_empty(rw_writers))
              => pc'[t] = "rw_rd_woken"]_vars

(* C17: the rwlock's writer preference.  With readers holding the lock and
   a writer blocked in wrlock, a further rdlock caller does not block: it
   joins the readers.  The blocked writer is taken off its queue only by
   the unlock of the last reader inside, which sets has_writer for it, or
   by the unlock of a writer, which hands the lock on.  Readers block only
   behind has_writer, and the unlock of a writer with no writer waiting
   takes all of them off the queue together, counts them in nr_readers and
   makes them runnable; no reader is inside while has_writer is set.  The
   order is readers, writer, then the readers that came while the writer
   had the lock. *)
C17_WriterPreference ==
    /\ [][\A t \in Many :
            /\ (pc[t] = "rw_rd_locked" /\ pc'[t] # pc[t]
                 /\ nr_readers >= 1 /\ ~has_writer /\ ~sync_is_empty(rw_writers))
                  => /\ pc'[t] = "done" /\ rw_st'[t] = "reader"
                     /\ nr_readers' = nr_readers + 1
                     /\ rw_writers' = rw_writers
            /\ (pc[t] = "rw_unlock_locked" /\ pc'[t] # pc[t]) =>
                  /\ rw_writers' # rw_writers =>
                        /\ has_writer \/ nr_readers = 1
                        /\ has_writer' /\ nr_readers' = 0
                        /\ rw_writers' = Tail(rw_writers)
                        /\ restartees'[t] = <<Head(rw_writers)>>
                  /\ (~has_writer /\ nr_readers > 1) =>
                        rw_writers' = rw_writers /\ ~has_writer'
                  /\ (has_writer /\ sync_is_empty(rw_writers)) =>
                        /\ restartees'[t] = rw_readers
                        /\ sync_is_empty(rw_readers')
                        /\ nr_readers' = Len(rw_readers)
                        /\ ~has_writer']_vars
    /\ [](has_writer => \A t \in Many : rw_st[t] # "reader")
    /\ [](~sync_is_empty(rw_readers) => has_writer)

(* the writer that waited for the readers to leave has been given the lock
   by the last of them, and two readers have queued up behind it *)
C17_ReadersBehindWriter ==
    /\ has_writer
    /\ \E w \in Many : op[w] = "wrlock" /\ wake_src[w] = {"pop"}
    /\ Len(rw_readers) = 2

(* C18: reader admission.  Whenever has_writer is FALSE, rdlock and
   try_rdlock get the lock in the step that tests it: nr_readers goes up by
   one and the caller does not block, whether or not a writer waits; with
   has_writer TRUE rdlock blocks and try_rdlock returns FALSE, nr_readers
   untouched. *)
C18_ReaderAdmission ==
    [][\A t \in Many :
          /\ (pc[t] = "rw_rd_locked" /\ pc'[t] # pc[t]) =>
                IF ~has_writer
                THEN /\ pc'[t] = "done" /\ ust'[t] = "runnable"
                     /\ nr_readers' = nr_readers + 1 /\ rw_st'[t] = "reader"
                ELSE /\ pc'[t] = "rw_rd_woken" /\ ust'[t] = "blocked"
                     /\ nr_readers' = nr_readers
          /\ (pc[t] = "rw_tryrd_locked" /\ pc'[t] # pc[t]) =>
                IF ~has_writer
                THEN /\ pc'[t] = "done" /\ ret'[t] = "true"
                     /\ nr_readers' = nr_readers + 1 /\ rw_st'[t] = "reader"
                ELSE /\ pc'[t] = "done" /\ ret'[t] = "false"
                     /\ nr_readers' = nr_readers /\ rw_st'[t] = "none"]_vars

(* a try_rdlock has returned TRUE and its caller reads along with another
   reader while a writer waits on the writer queue *)
C18_AdmittedPastWriter ==
    \E t \in Many :
        /\ pc[t] = "done" /\ op[t] = "try_rdlock" /\ ret[t] = "true"
        /\ nr_readers = 2 /\ ~has_writer
        /\ ~sync_is_empty(rw_writers)

(* q without uthread v, the others in their order *)
Without(q, v) == SelectSeq(q, LAMBDA i : i # v)

(* this step takes v off its wait queue: "pop" for a waker, "timeout" for
   the timeout handler *)
NewWake(v, src) == src \in wake_src'[v] /\ src \notin wake_src[v]

(* a step from wait queue q to q2: a uthread joins at the tail, or the
   timeout handler takes one out and the others keep their order, or a
   waker takes some off *)
FifoStep(q, q2) ==
    /\ Len(q2) > Len(q) => \E t \in AllThreads : q2 = Append(q, t)
    /\ \A v \in AllThreads :
          (NewWake(v, "timeout") /\ InQueue(q, v)) => q2 = Without(q, v)
    /\ q2 # q =>
          \/ Len(q2) > Len(q)
          \/ \E v \in AllThreads :
                InQueue(q, v) /\ (NewWake(v, "pop") \/ NewWake(v, "timeout"))

(* C19: FIFO wake-up.  Uthreads join a wait queue at its tail; an up, a
   signal and the rwlock's choice of the next writer take the head of
   their queue, so the uthreads they wake come off in the order in which
   they were enqueued; a broadcast and the rwlock's release of the readers
   take the whole queue in its order; a uthread that the timeout handler
   removes drops out and leaves the order of the others as it was. *)
C19_FifoWakeup ==
    [][/\ FifoStep(sem_q, sem_q') /\ FifoStep(cv_q, cv_q')
       /\ FifoStep(rw_writers, rw_writers') /\ FifoStep(rw_readers, rw_readers')
       /\ \A v \in AllThreads :
             NewWake(v, "pop") =>
                 /\ InQueue(sem_q, v) => v = Head(sem_q) /\ sem_q' = Tail(sem_q)
                 /\ InQueue(rw_writers, v) =>
                       v = Head(rw_writers) /\ rw_writers' = Tail(rw_writers)
                 /\ InQueue(cv_q, v) =>
                       \/ v = Head(cv_q) /\ cv_q' = Tail(cv_q)
                       \/ /\ sync_is_empty(cv_q')
                          /\ \E u \in AllThreads : restartees'[u] = cv_q
                 /\ InQueue(rw_readers, v) =>
                       /\ sync_is_empty(rw_readers')
                       /\ \E u \in AllThreads : restartees'[u] = rw_readers]_vars

(* two uthreads slept on the semaphore; an up has taken the first of them
   off the queue and the one that came later is still on it *)
C19_HeadPoppedFirst ==
    /\ client = "semfifo"
    /\ \E u \in Many, v \in Many :
          /\ up_uth[u] = v /\ wake_src[v] = {"pop"}
          /\ Len(sem_q) = 1 /\ ust[Head(sem_q)] = "blocked"

(* t is on the local queue of some broadcast: it was on the CV's queue at
   that broadcast's swap and has yet to be made runnable *)
Swapped(t) == \E u \in Many : InQueue(restartees[u], t)

(* C20: CV wake sets.  A signal that finds the queue non-empty takes
   exactly its head and makes that uthread runnable, one that finds it
   empty wakes nobody.  A broadcast takes exactly the uthreads on the queue
   at its swap, leaves the queue empty for those that come later, and makes
   runnable those it took, one after the other and nobody else.  Every
   uthread present at a swap returns from its wait in the end, holding
   the mutex. *)
C20_CvWakeSets ==
    /\ [][\A u \in Many :
            /\ (pc[u] = "cv_signal_locked" /\ pc'[u] # pc[u]) =>
                  IF cv_q = <<>>
                  THEN cv_uth'[u] = NULL /\ cv_q' = <<>> /\ pc'[u] = "done"
                  ELSE cv_uth'[u] = Head(cv_q) /\ cv_q' = Tail(cv_q)
            /\ (pc[u] = "cv_signal_wake" /\ pc'[u] # pc[u]) =>
                  \A t \in Many : ust'[t] # ust[t] => t = cv_uth[u]
            /\ (pc[u] = "cv_bcast_locked" /\ pc'[u] # pc[u]) =>
                  /\ restartees'[u] = cv_q /\ sync_is_empty(cv_q')
                  /\ ust' = ust
            /\ (pc[u] = "cv_bcast_wake" /\ restartees'[u] # restartees[u]) =>
                  /\ ust'[Head(restartees[u])] = "runnable"
                  /\ restartees'[u] = Tail(restartees[u])
                  /\ \A t \in Many : ust'[t] # ust[t] => t = Head(restartees[u])
            /\ (pc[u] = "cv_bcast_wake" /\ pc'[u] # pc[u]) =>
                  sync_is_empty(restartees'[u])]_vars
    /\ \A t \in Many :
          Swapped(t) ~> (op[t] = "cv_wait" /\ pc[t] = "done" /\ t \in held)

(* a broadcast has swapped out a queue of two waiters and woken the first;
   that one has since come back to the CV's queue, which this broadcast
   leaves alone *)
C20_LateWaiterLeft ==
    \E u \in Many :
        /\ pc[u] = "cv_bcast_wake" /\ Len(restartees[u]) = 1
        /\ Len(cv_q) = 1
        /\ wake_src[Head(restartees[u])] = {"pop"}

(* ------------------------------- C21 ----------------------------------- *)
(* a uthread of the ping-pong has run its last statement, unlock(mtx), and
   is back in its caller *)
PpDone(t) == step[t] = 3 /\ pc[t] = "idle" /\ Running(t)

PpPlayers == {t \in Threads : Waiter(t) \/ Ponger(t)}

(* C21: with flag = 0, uthread 1 running lock; while (flag == 0) wait;
   flag = 0; signal; unlock and uthread 2 running lock; flag = 1; signal;
   while (flag == 1) wait; unlock, every fair execution ends with both
   uthreads returned from their unlock, and a uthread that has returned
   stays so: each terminates exactly once, with no deadlock and no lost
   wakeup. *)
C21_PingPongTerminates ==
    /\ <>[](\A t \in PpPlayers : PpDone(t))
    /\ [][\A t \in PpPlayers : PpDone(t) => PpDone(t)' /\ step'[t] = step[t]]_vars
    /\ [](\A t \in PpPlayers : step[t] <= 3)

(* both uthreads have returned from their unlock, the flag is back at 0,
   and the mutex and the CV are at rest *)
C21_BothDone ==
    /\ client = "pingpong"
    /\ \A t \in PpPlayers : PpDone(t)
    /\ ~flag /\ held = {} /\ sem_count = 1
    /\ cv_q = << >> /\ sem_q = << >>

(* ------------------------------- C22 ----------------------------------- *)
(* the spinlocks of the three primitives *)
Spinlocks == {sem_lock, cv_lock, rw_lock}

(* the contexts that have uthread_runnable(u) as their next statement: an
   up, a signal, a broadcast or an rwlock unlock of a uthread, the up of a
   CV wait callback, the timeout handler *)
WakersOf(u) ==
    {Uth(t) : t \in {t \in AllThreads :
                        \/ pc[t] = "sem_up_wake" /\ up_uth[t] = u
                        \/ pc[t] = "cv_signal_wake" /\ cv_uth[t] = u
                        \/ /\ pc[t] \in {"cv_bcast_wake", "rw_unlock_wake"}
                           /\ sync_first(restartees[t]) = u}}
    \cup {Vcore(t) : t \in {t \in AllThreads :
                                cv_cb[t] = "cv_cb_up_wake" /\ cb_uth[t] = u}}
    \cup {Alarm(t) : t \in {t \in AllThreads :
                                t = u /\ alarm[t] = "h_wake" /\ timed_out[t]}}

(* this step takes u off wait queue q *)
Leaves(q, q2, u) == InQueue(q, u) /\ ~InQueue(q2, u)

(* this step is a uthread_runnable(u) on the blocked u *)
Woken(u) == ust[u] = "blocked" /\ ust'[u] = "runnable"

(* C22: wake outside the lock.  In every wake path (semaphore up, CV
   signal, CV broadcast, rwlock unlock, timeout handler) the uthread to wake
   is taken off the wait queue in a step that starts with the primitive's
   spinlock held and does not make it runnable; uthread_runnable is called
   for it by a context that holds no spinlock, after the uthread has left
   every wait queue. *)
C22_WakeOutsideLock ==
    /\ [](\A u \in AllThreads : \A w \in WakersOf(u) : w \notin Spinlocks)
    /\ [][\A u \in AllThreads :
             /\ Leaves(sem_q, sem_q', u) => sem_lock # NoOne /\ ~Woken(u)
             /\ Leaves(cv_q, cv_q', u) => cv_lock # NoOne /\ ~Woken(u)
             /\ (Leaves(rw_readers, rw_readers', u) \/ Leaves(rw_writers, rw_writers', u))
                   => rw_lock # NoOne /\ ~Woken(u)
             /\ Woken(u) =>
                   /\ ~InQueue(sem_q, u) /\ ~InQueue(cv_q, u)
                   /\ ~InQueue(rw_readers, u) /\ ~InQueue(rw_writers, u)
                   /\ WakersOf(u) # {}]_vars

(* the timeout handler has taken its waiter off the CV's queue and is about
   to wake it, while another uthread already holds the CV's spinlock *)
C22_LockFreeAtWake ==
    \E t \in Many, u \in Many :
        /\ alarm[t] = "h_wake" /\ blob_sync[t] = "cv"
        /\ ust[t] = "blocked"
        /\ cv_lock = Uth(u)

(* ------------------------------- C23 ----------------------------------- *)
(* the flow of control a spinlock holder belongs to: a uthread and the yield
   callback run for it on its vcore are one flow, an alarm handler is its
   own *)
Flow(h) == IF h[1] = "alarm" THEN h ELSE <<"uth", h[2]>>

(* no flow of control holds two of the spinlocks *)
NoTwoSpinlocks ==
    /\ sem_lock # NoOne /\ cv_lock # NoOne => Flow(sem_lock) # Flow(cv_lock)
    /\ sem_lock # NoOne /\ rw_lock # NoOne => Flow(sem_lock) # Flow(rw_lock)
    /\ cv_lock # NoOne /\ rw_lock # NoOne => Flow(cv_lock) # Flow(rw_lock)

(* C23: CV wait callback ordering and spinlock nesting.  __cv_wait_cb runs
   with the CV's spinlock and the mutex held and the waiter not yet queued;
   it puts the waiter on the CV's queue, then releases the CV's spinlock,
   and only then unlocks the mutex, taking the mutex's spinlock with the
   CV's no longer held; no flow of control ever holds two spinlocks. *)
C23_CvCallbackOrder ==
    /\ NoTwoSpinlocks
    /\ \A t \in AllThreads :
          /\ cv_cb[t] = "cv_cb_enqueue" =>
                cv_lock = Uth(t) /\ ~InQueue(cv_q, t) /\ t \in held
          /\ cv_cb[t] = "cv_cb_unlock" =>
                cv_lock = Uth(t) /\ InQueue(cv_q, t) /\ t \in held
          /\ cv_cb[t] = "cv_cb_mtx" => cv_lock # Uth(t) /\ t \in held
          /\ cv_cb[t] = "cv_cb_up_locked" =>
                sem_lock = Vcore(t) /\ cv_lock # Uth(t) /\ t \notin held

(* a callback is inside the mutex's unlock, holding the mutex's spinlock,
   with its waiter on the CV's queue, while another uthread already holds
   the CV's spinlock *)
C23_UnlockUnderFreeCv ==
    \E t \in Threads, u \in Threads :
        /\ t # u
        /\ cv_cb[t] = "cv_cb_up_locked" /\ sem_lock = Vcore(t)
        /\ InQueue(cv_q, t)
        /\ cv_lock = Uth(u)

(* ------------------------------- C24 ----------------------------------- *)
(* this step is the body of uthread t's uth_rwlock_unlock, from the lock
   taken to the lock released *)
UnlockBodyOf(t) == pc[t] = "rw_unlock_locked" /\ pc'[t] # pc[t]

(* this step is one turn of the wake loop of t's uth_rwlock_unlock *)
UnlockWakeOf(t) == pc[t] = "rw_unlock_wake" /\ restartees'[t] # restartees[t]

(* C24: rwlock writer unlock.  An unlock that finds has_writer true and the
   writer queue non-empty takes exactly the head writer to wake, leaves
   has_writer true, nr_readers unchanged and every queued reader queued; one
   that finds the writer queue empty clears has_writer, drains the whole
   reader queue to wake and adds the number drained to nr_readers.  The
   uthreads taken are then made runnable one by one, and nobody else. *)
C24_WriterUnlock ==
    [][\A t \in AllThreads :
         /\ (UnlockBodyOf(t) /\ has_writer) =>
               IF rw_writers # <<>>
               THEN /\ restartees'[t] = <<Head(rw_writers)>>
                    /\ rw_writers' = Tail(rw_writers)
                    /\ rw_readers' = rw_readers
                    /\ has_writer' /\ nr_readers' = nr_readers
               ELSE /\ restartees'[t] = rw_readers
                    /\ rw_readers' = <<>> /\ rw_writers' = <<>>
                    /\ ~has_writer'
                    /\ nr_readers' = nr_readers + Len(rw_readers)
         /\ UnlockWakeOf(t) =>
               /\ restartees'[t] = Tail(restartees[t])
               /\ ust' = [ust EXCEPT ![Head(restartees[t])] = "runnable"]
               /\ ust[Head(restartees[t])] = "blocked"]_vars

(* a writer's unlock found no writer waiting and has drained two readers,
   both counted in nr_readers and neither woken yet *)
C24_TwoReadersDrained ==
    \E t \in Many :
        /\ pc[t] = "rw_unlock_wake" /\ Len(restartees[t]) = 2
        /\ ~has_writer /\ nr_readers = 2
        /\ rw_readers = <<>>
        /\ \A i \in 1..2 : ust[restartees[t][i]] = "blocked"

(* ------------------------------- C25 ----------------------------------- *)
(* C25: rwlock reader unlock.  An unlock that finds has_writer false finds
   nr_readers positive and takes one off it.  If readers remain, nothing
   else changes and nobody is taken to wake.  If none remains and a writer
   is queued, exactly the head writer is taken to wake and has_writer is
   set.  If none remains and no writer is queued, the lock is free: no
   writer, no reader, nobody queued. *)
C25_ReaderUnlock ==
    [][\A t \in AllThreads :
         (UnlockBodyOf(t) /\ ~has_writer) =>
            /\ nr_readers >= 1
            /\ nr_readers' = nr_readers - 1
            /\ rw_readers' = rw_readers
            /\ ust' = ust
            /\ CASE nr_readers' > 0 ->
                       /\ ~has_writer' /\ rw_writers' = rw_writers
                       /\ restartees'[t] = <<>> /\ pc'[t] = "done"
                 [] nr_readers' = 0 /\ rw_writers # <<>> ->
                       /\ has_writer'
                       /\ restartees'[t] = <<Head(rw_writers)>>
                       /\ rw_writers' = Tail(rw_writers)
                       /\ pc'[t] = "rw_unlock_wake"
                 [] OTHER ->
                       /\ ~has_writer' /\ nr_readers' = 0
                       /\ rw_readers' = <<>> /\ rw_writers' = <<>>
                       /\ restartees'[t] = <<>> /\ pc'[t] = "done"]_vars

(* the last reader is in its unlock, the lock taken, with two writers
   queued behind it: the head one is the one it is about to promote *)
C25_LastReaderOut ==
    \E t \in Many :
        /\ pc[t] = "rw_unlock_locked" /\ rw_lock = Uth(t)
        /\ ~has_writer /\ nr_readers = 1
        /\ Len(rw_writers) = 2

(* ------------------------------- C26 ----------------------------------- *)
(* the rwlock's state: Free (no writer, 0 readers), Reading (n >= 1
   readers), Writing *)
RwState(hw, nr) == IF hw THEN "Writing" ELSE IF nr >= 1 THEN "Reading" ELSE "Free"

(* this step is the fast path of a (try_)rdlock, of a (try_)wrlock *)
RdFastOf(t) == pc[t] \in {"rw_rd_locked", "rw_tryrd_locked"} /\ pc'[t] = "done"
WrFastOf(t) == pc[t] \in {"rw_wr_locked", "rw_trywr_locked"} /\ pc'[t] = "done"

(* C26: rwlock state machine.  has_writer and a positive nr_readers never
   hold together, so the lock is Free, Reading(n) or Writing.  It goes from
   Free to Reading or Writing only by the fast path of a (try) rdlock or a
   (try) wrlock; from Reading to Free, or straight to Writing when a writer
   is queued, only by the unlock of the last reader; from Writing to
   Reading (readers drained), to Free (nobody queued), or on to the next
   writer, only by a writer's unlock.  Inside Reading the count moves by
   one, up by a rdlock fast path and down by a reader's unlock.  No other
   step changes the state. *)
C26_RwStateMachine ==
    /\ [](~(has_writer /\ nr_readers > 0) /\ nr_readers >= 0)
    /\ [][LET s == RwState(has_writer, nr_readers)
              s2 == RwState(has_writer', nr_readers')
          IN  /\ (s = "Free" /\ s2 = "Reading") =>
                    \E t \in AllThreads : RdFastOf(t) /\ nr_readers' = 1
              /\ (s = "Free" /\ s2 = "Writing") =>
                    \E t \in AllThreads : WrFastOf(t)
              /\ (s = "Reading" /\ s2 # "Reading") =>
                    /\ \E t \in AllThreads : UnlockBodyOf(t)
                    /\ nr_readers = 1
                    /\ s2 = IF rw_writers # <<>> THEN "Writing" ELSE "Free"
              /\ (s = "Reading" /\ s2 = "Reading" /\ nr_readers' # nr_readers) =>
                    \/ nr_readers' = nr_readers + 1 /\ \E t \in AllThreads : RdFastOf(t)
                    \/ nr_readers' = nr_readers - 1 /\ \E t \in AllThreads : UnlockBodyOf(t)
              /\ (s = "Writing" /\ s2 # "Writing") =>
                    /\ \E t \in AllThreads : UnlockBodyOf(t)
                    /\ rw_writers = <<>>
                    /\ s2 = IF rw_readers # <<>> THEN "Reading" ELSE "Free"
              /\ (s = "Writing" /\ rw_writers # <<>> /\ rw_writers' = Tail(rw_writers)) =>
                    /\ \E t \in AllThreads : UnlockBodyOf(t)
                    /\ s2 = "Writing"]_vars

(* Writing has just become Reading: a writer's unlock let the one queued
   reader in, which is still asleep, while another writer waits behind *)
C26_WritingToReading ==
    \E t \in Many, w \in Many :
        /\ RwState(has_writer, nr_readers) = "Reading" /\ nr_readers = 1
        /\ pc[t] = "rw_unlock_wake" /\ Len(restartees[t]) = 1
        /\ ust[restartees[t][1]] = "blocked"
        /\ pc[w] = "rw_wr_locked"

(* ------------------------------- C27 ----------------------------------- *)
(* the try operations *)
TryOps == {"trydown", "try_rdlock", "try_wrlock"}

(* this step is the body of t's try operation, under the spinlock *)
TryBodyOf(t, at) == pc[t] = at /\ pc'[t] # pc[t]

(* the wait queues of the primitives *)
Queues == <<sem_q, cv_q, rw_readers, rw_writers>>

(* C27: try operations never block and fail without effect.  A uthread
   inside uth_semaphore_trydown (uth_mutex_trylock), uth_rwlock_try_rdlock
   or uth_rwlock_try_wrlock is never blocked, never on a wait queue and has
   no yield callback pending.  Under the spinlock each returns true iff its
   acquire condition holds (count > 0; !has_writer; !has_writer and
   nr_readers == 0) and then changes the state as the blocking fast path
   does (count--; nr_readers++; has_writer = TRUE); when it returns false
   the count, the flags and the queues are as they were. *)
C27_TryOps ==
    /\ [](\A t \in AllThreads :
             op[t] \in TryOps =>
                /\ Running(t) /\ ~OnAQueue(t)
                /\ cb[t] = "none" /\ cv_cb[t] = "none")
    /\ [][\A t \in AllThreads :
             /\ TryBodyOf(t, "sem_try_locked") =>
                   /\ pc'[t] = "done" /\ ust' = ust /\ Queues' = Queues
                   /\ ret'[t] = IF sem_count > 0 THEN "true" ELSE "false"
                   /\ sem_count' = IF sem_count > 0 THEN sem_count - 1 ELSE sem_count
             /\ TryBodyOf(t, "rw_tryrd_locked") =>
                   /\ pc'[t] = "done" /\ ust' = ust /\ Queues' = Queues
                   /\ ret'[t] = IF ~has_writer THEN "true" ELSE "false"
                   /\ nr_readers' = IF ~has_writer THEN nr_readers + 1 ELSE nr_readers
                   /\ has_writer' = has_writer
             /\ TryBodyOf(t, "rw_trywr_locked") =>
                   /\ pc'[t] = "done" /\ ust' = ust /\ Queues' = Queues
                   /\ ret'[t] = IF ~has_writer /\ nr_readers = 0 THEN "true" ELSE "false"
                   /\ has_writer' = IF ~has_writer /\ nr_readers = 0 THEN TRUE ELSE has_writer
                   /\ nr_readers' = nr_readers]_vars

(* a try_wrlock has failed on a lock that readers hold and a writer waits
   for, and has left it so *)
C27_TryWrFailed ==
    \E t \in Many :
        /\ pc[t] = "done" /\ op[t] = "try_wrlock" /\ ret[t] = "false"
        /\ ~has_writer /\ nr_readers = 1
        /\ Len(rw_writers) = 1

(* ------------------------------- C28 ----------------------------------- *)
(* this step is the body of t's uth_cond_var_broadcast, under cv->lock *)
BroadcastBodyOf(t) == pc[t] = "cv_bcast_locked" /\ pc'[t] # pc[t]

(* the waker has made its signal and its broadcast and has returned *)
WakerDone == \A t \in Many : Waker(t) => step[t] = 2 /\ pc[t] = "idle"

(* C28: broadcast on an empty CV is a no-op.  A uth_cond_var_broadcast that
   finds the CV's queue empty wakes no uthread, takes none and leaves the
   queue empty.  It is not remembered: a uthread that waits afterwards
   blocks at its yield and stays blocked while it is on the CV's queue, and
   with no signal, broadcast or timeout to come it stays there. *)
C28_EmptyBroadcast ==
    /\ [][\A t \in AllThreads :
             (BroadcastBodyOf(t) /\ cv_q = <<>>) =>
                /\ cv_q' = <<>> /\ restartees'[t] = <<>>
                /\ ust' = ust /\ wake_src' = wake_src
                /\ pc'[t] = "done"]_vars
    /\ [](\A u \in AllThreads :
             (pc[u] = "cv_woken" /\ (cv_cb[u] = "cv_cb_enqueue" \/ InQueue(cv_q, u)))
                => ust[u] = "blocked")
    /\ [][\A u \in AllThreads :
             (WakerDone /\ InQueue(cv_q, u)) =>
                InQueue(cv_q', u) /\ ust'[u] = "blocked"]_vars

(* the waker's signal and broadcast are over and found nobody; a uthread
   that began its only wait afterwards sleeps on the CV's queue *)
C28_WaitsAfterBroadcast ==
    /\ client = "cvbcast" /\ WakerDone
    /\ \A u \in Many : ~Waker(u) =>
          /\ InQueue(cv_q, u) /\ ust[u] = "blocked"
          /\ cv_cb[u] = "none" /\ wake_src[u] = {}

(* ------------------------------- C29 ----------------------------------- *)
(* the uthread_runnable(u) calls still to come: u is the uthread an up, a
   callback's up or a signal has popped, or is in the local list of a
   broadcast or an rwlock unlock, or its timeout handler has taken it *)
RECURSIVE PendingUpTo(_, _)
PendingUpTo(u, n) ==
    IF n = 0 THEN 0
    ELSE (IF up_uth[n] = u THEN 1 ELSE 0) + (IF cb_uth[n] = u THEN 1 ELSE 0)
         + (IF cv_uth[n] = u THEN 1 ELSE 0) + Links(restartees[n], u)
         + PendingUpTo(u, n - 1)

PendingWakes(u) ==
    PendingUpTo(u, Cardinality(AllThreads))
    + (IF alarm[u] = "h_wake" /\ timed_out[u] THEN 1 ELSE 0)

(* what PendingWakes is read from *)
wakeVars == <<up_uth, cb_uth, cv_uth, restartees, alarm, timed_out>>

(* u has yielded and its callback has not put it on the queue yet *)
EnqueuePending(u) ==
    \/ cb[u] \in {"sem_cb_enqueue", "rw_rd_cb_enqueue", "rw_wr_cb_enqueue"}
    \/ cv_cb[u] = "cv_cb_enqueue"

QueueLinks(u) ==
    Links(sem_q, u) + Links(cv_q, u) + Links(rw_readers, u) + Links(rw_writers, u)

(* C29: every uthread that blocks is made runnable exactly once per
   blocking episode.  A blocked uthread is about to be enqueued, or on one
   wait queue, or taken off by exactly one context that has one
   uthread_runnable call for it to come; a runnable uthread is on no queue
   and nobody has a call for it to come.  Whoever takes a uthread off a
   queue (pop by up, signal or unlock, drain by a writer's unlock, swap by
   broadcast, removal by the timeout handler) gets that one call; the call
   is made on the blocked uthread and is the only way a call to come goes
   away, and no uthread becomes runnable otherwise. *)
C29_WokenExactlyOnce ==
    /\ [](\A u \in AllThreads :
             IF ust[u] = "blocked"
             THEN (IF EnqueuePending(u) THEN 1 ELSE 0)
                     + QueueLinks(u) + PendingWakes(u) = 1
             ELSE QueueLinks(u) = 0 /\ PendingWakes(u) = 0 /\ ~EnqueuePending(u))
    /\ [][\A u \in AllThreads :
             /\ Queues' # Queues =>
                   (QueueLinks(u)' < QueueLinks(u) =>
                       PendingWakes(u)' = PendingWakes(u) + 1 /\ ~Woken(u))
             /\ wakeVars' # wakeVars =>
                   /\ PendingWakes(u)' > PendingWakes(u) => QueueLinks(u)' < QueueLinks(u)
                   /\ PendingWakes(u)' < PendingWakes(u) => Woken(u)
             /\ Woken(u) => PendingWakes(u) = 1 /\ PendingWakes(u)' = 0]_vars

(* the timeout handler has taken its waiter off the CV's queue and has its
   one call to make, while a signal that came second holds the CV's
   spinlock over the now empty queue *)
C29_TimeoutBeatsSignal ==
    \E u \in Many, t \in Many :
        /\ alarm[u] = "h_wake" /\ timed_out[u] /\ blob_sync[u] = "cv"
        /\ ust[u] = "blocked" /\ PendingWakes(u) = 1
        /\ pc[t] = "cv_signal_locked" /\ cv_q = <<>>

(* ------------------------------- C30 ----------------------------------- *)
(* this step is the body of the timeout handler of u, under the lock *)
HandlerBodyOf(u) == alarm[u] = "h_locked" /\ alarm'[u] # alarm[u]

(* C30: broadcast versus timeout race.  While a timed CV waiter is in a
   broadcaster's local list, moved there by the swap and not yet woken, it
   is blocked, is marked as popped and not as timed out, and its handler
   has no wakeup for it.  A handler that runs then finds it absent from the
   CV's queue: it leaves timed_out false, wakes nobody and touches no
   queue.  The waiter is woken by the broadcast alone, and a timed wait
   that was ended by a pop returns true. *)
C30_BroadcastBeatsTimeout ==
    /\ [](\A u \in AllThreads :
             Swapped(u) =>
                /\ ust[u] = "blocked" /\ RestartLinks(u) = 1
                /\ ~timed_out[u] /\ alarm[u] # "h_wake"
                /\ wake_src[u] = {"pop"})
    /\ [][\A u \in AllThreads :
             /\ (HandlerBodyOf(u) /\ Swapped(u)) =>
                   /\ alarm'[u] = "done" /\ timed_out' = timed_out
                   /\ ust' = ust /\ cv_q' = cv_q /\ restartees' = restartees
             /\ (pc[u] = "cv_woken" /\ pc'[u] # pc[u] /\ timed[u]) =>
                   ret'[u] = IF wake_src[u] = {"pop"} THEN "true" ELSE "false"]_vars

(* the alarm of a timed waiter went off after the broadcast's swap: its
   handler is over and found nobody, and the waiter waits in the
   broadcaster's list for its wakeup *)
C30_HandlerFoundNobody ==
    \E u \in Threads, t \in Threads :
        /\ pc[t] = "cv_bcast_wake" /\ InQueue(restartees[t], u)
        /\ op[u] = "cv_wait" /\ timed[u]
        /\ alarm[u] = "done" /\ ~timed_out[u]
        /\ ust[u] = "blocked"

(* ------------------------------- C31 ----------------------------------- *)
(* the yield callback of t's wait has released cv->lock and has not yet
   unlocked the mutex *)
CbBeforeUnlock(t) == cv_cb[t] \in {"cv_cb_mtx", "cv_cb_up_locked"}

(* t was woken with its callback there, and runs on towards the mutex *)
EarlyWoken(t) ==
    /\ CbBeforeUnlock(t) /\ Running(t)
    /\ pc[t] \in {"cv_woken", "cv_relock", "sem_down_locked", "sem_yield"}

(* uth_cond_var_timed_wait has returned to t, which holds the mutex *)
BackWithMutex(t) == op[t] = "cv_wait" /\ pc[t] = "done" /\ t \in held

(* C31: CV early-wake race.  A CV waiter woken (by signal, broadcast or
   timeout) after its yield callback released the CV's spinlock and before
   that callback unlocked the mutex finds the mutex taken, by itself, and
   blocks on it; the callback's uth_mutex_unlock then finds the mutex's
   queue non-empty and hands the mutex to its head without raising the
   count.  At most one uthread holds the mutex throughout and a wait
   returns only to a uthread that holds it.  Uthread 1, whose wait may be
   ended by signal, broadcast or timeout, eventually returns from its wait
   holding the mutex whenever it is woken so early, and every run ends with
   the mutex free, nobody queued on it, and every waiter through its
   unlock or still asleep on the CV. *)
C31_EarlyWake ==
    /\ [](Cardinality(held) <= 1)
    /\ [](\A t \in AllThreads :
             /\ cv_cb[t] = "cv_cb_mtx" => t \in held /\ sem_count = 0
             /\ (CbBeforeUnlock(t) /\ (InQueue(sem_q, t) \/ cb[t] = "sem_cb_enqueue"))
                   => ust[t] = "blocked" /\ sem_count = 0)
    /\ [][\A t \in AllThreads :
             /\ (EarlyWoken(t) /\ pc[t] = "sem_down_locked" /\ pc'[t] # pc[t])
                   => pc'[t] = "sem_yield" /\ sem_count' = 0
             /\ (cv_cb[t] = "cv_cb_up_locked" /\ cv_cb'[t] # cv_cb[t] /\ sem_q # <<>>)
                   => /\ cb_uth'[t] = Head(sem_q) /\ sem_q' = Tail(sem_q)
                      /\ sem_count' = 0 /\ cv_cb'[t] = "cv_cb_up_wake"]_vars
    /\ [](\A t \in AllThreads :
             (op[t] = "cv_wait" /\ pc[t] = "done") => BackWithMutex(t))
    /\ (\E t \in Many : Waiter(t) /\ EarlyWoken(t))
          ~> (\E t \in Many : Waiter(t) /\ BackWithMutex(t))
    /\ <>[](/\ held = {} /\ sem_count = 1 /\ sem_q = <<>>
            /\ \A t \in Many : ~Waker(t) => step[t] = 2 \/ InQueue(cv_q, t))

(* a waiter whose wait timed out before its callback unlocked the mutex
   sleeps on the mutex it still holds, behind another uthread *)
C31_AsleepOnOwnMutex ==
    \E t \in Many :
        /\ op[t] = "cv_wait" /\ ret[t] = "false"
        /\ cv_cb[t] = "cv_cb_mtx" /\ t \in held
        /\ InQueue(sem_q, t) /\ Head(sem_q) # t
        /\ ust[t] = "blocked"

(* ------------------------------- C32 ----------------------------------- *)
(* t owns the recursive mutex: it has locks that returned success and are
   not yet balanced by unlocks, it is not inside its last unlock and not
   inside a wait_recurse *)
OwnsRec(t) ==
    /\ step[t] > 0
    /\ r_pc[t] \notin {"unlock_mtx", "wait_cv"}
    /\ ~(op[t] = "r_unlock" /\ pc[t] = "done" /\ step[t] = 1)

(* C32: recursive mutex mutual exclusion.  In every interleaving of lock,
   trylock, timed_lock, unlock and (timed) wait_recurse at most one uthread
   at a time owns the recursive mutex, the owner is the lockholder, and
   lockholder is only ever a uthread that holds the embedded mutex. *)
C32_RecExclusion ==
    /\ Cardinality({t \in Threads : OwnsRec(t)}) <= 1
    /\ \A t \in Threads : OwnsRec(t) => r_holder = t /\ r_count >= 1
    /\ r_holder # NULL =>
          /\ r_holder \in held /\ held = {r_holder}
          /\ mtx_locked
          /\ r_pc[r_holder] = "none"

(* uthread 1 sleeps on the CV inside a timed wait_recurse it entered at
   depth 2, and another uthread owns the recursive mutex, at depth 2 *)
C32_OwnerChanged ==
    \E t \in Threads, u \in Threads :
        /\ t # u
        /\ r_pc[t] = "wait_cv" /\ timed[t] /\ old_count[t] = 2
        /\ InQueue(cv_q, t)
        /\ OwnsRec(u) /\ RecAtRest(u) /\ r_holder = u /\ r_count = 2

(* ups that were called and have not yet reached the count or a waiter *)
UpsUnderWay == {t \in Threads : pc[t] = "sem_up_locked"}

(* downs that an up took off the queue, their unit with them, and that have
   not yet returned *)
Granted == {t \in Threads : pc[t] = "sem_woken" /\ wake_src[t] = {"pop"}}

(* C33: semaphore unit conservation.  For a semaphore initialised with
   count c the successful returns of down, timed_down and trydown never
   exceed c plus the up calls made; in every state count is c plus the ups
   minus the successful downs, less the ups still under way and the units
   handed to waiters that have not returned yet, so with no operation in
   progress count = c + ups - successful downs.  A timed_down that times
   out, like a trydown that fails, returns leaving count and the successful
   downs as they were, and the timeout handler never changes count. *)
C33_UnitConservation ==
    /\ [](n_down <= init_count + n_up)
    /\ [](sem_count = init_count + n_up - n_down
                        - Cardinality(UpsUnderWay) - Cardinality(Granted))
    /\ []((\A t \in Threads : pc[t] \in {"idle", "done"} /\ alarm[t] \in {"off", "done"})
            => sem_count = init_count + n_up - n_down)
    /\ [][\A t \in Threads :
            /\ (pc[t] # "done" /\ pc'[t] = "done" /\ ret'[t] = "false")
                  => sem_count' = sem_count /\ n_down' = n_down /\ n_up' = n_up
            /\ (pc[t] # "done" /\ pc'[t] = "done" /\ ret'[t] = "true")
                  => n_down' = n_down + 1
            /\ alarm'[t] \notin {alarm[t], "off"} => sem_count' = sem_count]_vars

(* count started at 1 and one up was made: two downs have succeeded, a timed
   down has timed out and returned failure, and nothing is left of the
   count *)
C33_AllUnitsTaken ==
    /\ init_count = 1 /\ n_up = 1 /\ n_down = 2 /\ sem_count = 0
    /\ \E t \in Threads :
          /\ pc[t] = "done" /\ op[t] = "down" /\ timed[t] /\ ret[t] = "false"
    /\ \A t \in Threads : pc[t] \in {"idle", "done"}

(* a wrlock or a try_wrlock at its test, with rwl->lock in hand *)
AtWrTest(t) == pc[t] \in {"rw_wr_locked", "rw_trywr_locked"}

(* C34: no writer waits on a free rwlock.  Whenever the rwlock's spinlock
   is not held, a non-empty writer queue implies has_writer or
   nr_readers > 0.  Hence a wrlock or a try_wrlock that finds the lock free
   at its test finds the writer queue empty, and none takes the fast path
   while a writer is on the queue. *)
C34_NoWriterWaitsOnFree ==
    /\ []((rw_lock = NoOne /\ ~sync_is_empty(rw_writers))
            => has_writer \/ nr_readers > 0)
    /\ [](\A t \in Many : (AtWrTest(t) /\ wr_free) => sync_is_empty(rw_writers))
    /\ [][\A t \in Many :
            (AtWrTest(t) /\ pc'[t] = "done" /\ rw_st'[t] = "writer")
                => /\ sync_is_empty(rw_writers) /\ sync_is_empty(rw_writers')
                   /\ ~has_writer /\ nr_readers = 0]_vars

(* a writer waits on the queue behind a reader, and a try_wrlock that came
   after it has come back with FALSE *)
C34_ArrivedBehindWriter ==
    /\ rw_lock = NoOne /\ ~has_writer /\ nr_readers = 1
    /\ Len(rw_writers) = 1
    /\ \E t \in Many : pc[t] = "done" /\ op[t] = "try_wrlock" /\ ret[t] = "false"

(* the uthread waits on the reader or on the writer queue *)
RwQueued(t) == InQueue(rw_readers, t) \/ InQueue(rw_writers, t)

(* the uthread has been made runnable inside rdlock or wrlock, and the lock
   is its own: counted in nr_readers, or has_writer set for it alone *)
RwGranted(t) ==
    /\ ust[t] = "runnable"
    /\ \/ pc[t] = "rw_rd_woken" /\ ~has_writer /\ nr_readers >= 1
       \/ pc[t] = "rw_wr_woken" /\ has_writer /\ nr_readers = 0
                /\ \A u \in Many : u # t => rw_st[u] = "none"

(* C35: rwlock drain liveness.  When every uthread makes its one request
   and no other arrives, and every uthread that holds the lock goes on to
   unlock it, every uthread on the reader or on the writer queue is in the
   end made runnable holding the lock, and the lock ends Free with both
   queues empty, every request having returned and every holder having
   unlocked. *)
C35_RwDrain ==
    /\ \A t \in Many : RwQueued(t) ~> RwGranted(t)
    /\ <>[](/\ ~has_writer /\ nr_readers = 0 /\ rw_lock = NoOne
            /\ sync_is_empty(rw_readers) /\ sync_is_empty(rw_writers)
            /\ \A t \in Many :
                  /\ pc[t] = "idle" /\ step[t] = 1
                  /\ ust[t] = "runnable" /\ rw_st[t] = "none")

(* a writer that waited on the queue has been made runnable with the lock,
   while a reader still waits behind it *)
C35_WriterLetIn ==
    \E t \in Many :
        /\ client = "rwdrain"
        /\ RwGranted(t) /\ pc[t] = "rw_wr_woken" /\ wake_src[t] = {"pop"}
        /\ ~sync_is_empty(rw_readers)

=============================================================================
